---- MODULE Spec2Model ----
(***************************************************************************)
(* Model of the dynastore optimistic-concurrency protocol: the DynaTable   *)
(* operations (Put, Get, Exists, Delete, AtomicPut, AtomicDelete) against  *)
(* a DynamoDB table whose items carry the attributes id, name, version,    *)
(* expires and payload.                                                    *)
(*                                                                         *)
(* Time is counted in clock ticks, TicksPerSec ticks to the second, so     *)
(* that time.Now() (sub-second resolution) and time.Now().Unix() (whole    *)
(* seconds) are different readings of the same clock.                      *)
(***************************************************************************)
EXTENDS Integers, Sequences, FiniteSets, TLC

\* ---------------------------------------------------------------- bounds
MaxClock == 2
MaxWrites == 2
TicksPerSec == 2
MaxLimit == 2

\* ------------------------------------------------------ universe of values
Clients == {"c1", "c2"}
Racers == {"c1", "c2", "c3"}
PartitionName == "agent"
\* sort keys are sequences of characters
Keys == {<<"a">>}
\* the sort keys of the run in which keys are listed
ListKeys == {<<"a">>, <<"a", "b">>, <<"a", "b", "c">>, <<"z">>}
\* time.Duration values handed to WriteWithTTL, in ticks
TTLs == {0, TicksPerSec}

Nil == "nil"
NoTTL == << >>
NoKV == [nil |-> TRUE]
NoItem == [a \in {} |-> 0]
NoFields == [a \in {} |-> ""]
NoCond == << >>
NoReq == [op |-> "none"]
NoRes == [op |-> "none"]

\* error values
ErrNone == "nil"
ErrKeyNotFound == "ErrKeyNotFound"
ErrKeyExists == "ErrKeyExists"
ErrKeyModified == "ErrKeyModified"
ErrReservedField == "ErrReservedField"
ErrIndexNotSupported == "ErrIndexNotSupported"
\* any error of the remote store that is not a conditional check failure
ErrRemote == "awserr"
\* the call did not return: nil pointer dereference
Panic == "panic"

DefaultPartitionKeyAttribute == "id"
DefaultSortKeyAttribute == "name"

reservedFields == {"id", "name", "version", "expires", "payload"}

VARIABLES
    store,      \* the table: sort key -> item (attribute map), NoItem if absent
    clock,      \* the wall clock, in ticks
    pc,         \* per client: "idle", "update" (UpdateItem in flight), "delete" (conditional DeleteItem in flight)
    req,        \* per client: the request in flight
    res,        \* per client: what the last completed call returned
    written,    \* per key: the versions stored by the successful writes since Init, in order
    nLive,      \* per key: how many of them happened since the key was last absent
    lastGone,   \* per key: the previous of the AtomicDelete that removed the item,
                \* until the next write to the key
    hist,       \* what an observer of the calls has noted down, NoHist when no
                \* one is observing
    wire        \* the log of a session built with a logging RequestBuilt hook
                \* on a recording client: per caller, what its latest call
                \* handed to the hook and sent to the store, in order; NoWire
                \* for a session with the default hooks

vars == <<store, clock, pc, req, res, written, nLive, lastGone, hist, wire>>

\* ------------------------------------------------------------- attribute maps
Has(item, a) == a \in DOMAIN item

SetAttr(item, a, v) == [x \in (DOMAIN item) \cup {a} |-> IF x = a THEN v ELSE item[x]]

Merge(item, m) == [x \in (DOMAIN item) \cup (DOMAIN m) |-> IF x \in DOMAIN m THEN m[x] ELSE item[x]]

\* time.Time.Unix(): whole seconds
Unix(t) == t \div TicksPerSec

\* variant: payload is not looked up
isReservedField_noPayload(s) == s \in reservedFields \ {"payload"}

isReservedField(s) == s \in reservedFields

\* variant: every item with an expires attribute counts as expired
isItemExpired_hasTTL(item, now) ==
    Has(item, "expires")

\* variant: not After in place of Before
isItemExpired_inclusive(item, now) ==
    IF Has(item, "expires") THEN item["expires"] * TicksPerSec <= now ELSE FALSE

\* time.Unix(ttl, 0).Before(time.Now())
isItemExpired(item, now) ==
    IF Has(item, "expires") THEN item["expires"] * TicksPerSec < now ELSE FALSE

DecodeItem(item) ==
    [Partition |-> IF Has(item, "id") THEN item["id"] ELSE "",
     Key       |-> IF Has(item, "name") THEN item["name"] ELSE << >>,
     Version   |-> IF Has(item, "version") THEN item["version"] ELSE 0,
     Expires   |-> IF Has(item, "expires") THEN item["expires"] ELSE 0,
     value     |-> IF Has(item, "payload") THEN item["payload"] ELSE Nil,
     fields    |-> [a \in {x \in DOMAIN item : ~isReservedField(x)} |-> item[a]]]

\* ------------------------------------------------------------- write options
WithTTL(d) == <<"WriteWithTTL", d>>
WithNoExpires == <<"WriteWithNoExpires">>
WithString(v) == <<"WriteWithString", v>>
WithFields(m) == <<"WriteWithFields", m>>
WithPreviousKV(kv) == <<"WriteWithPreviousKV", kv>>

\* variant: WriteWithFields adds its fields to those already set
ApplyWriteOption_mergeFields(wo, opt) ==
    CASE opt[1] = "WriteWithTTL" -> [wo EXCEPT !.ttl = <<opt[2]>>]
      [] opt[1] = "WriteWithNoExpires" -> [wo EXCEPT !.ttl = NoTTL]
      [] opt[1] = "WriteWithString" -> [wo EXCEPT !.value = opt[2]]
      [] opt[1] = "WriteWithFields" -> [wo EXCEPT !.fields = Merge(@, opt[2])]
      [] opt[1] = "WriteWithPreviousKV" -> [wo EXCEPT !.previous = opt[2]]

ApplyWriteOption(wo, opt) ==
    CASE opt[1] = "WriteWithTTL" -> [wo EXCEPT !.ttl = <<opt[2]>>]
      [] opt[1] = "WriteWithNoExpires" -> [wo EXCEPT !.ttl = NoTTL]
      [] opt[1] = "WriteWithString" -> [wo EXCEPT !.value = opt[2]]
      [] opt[1] = "WriteWithFields" -> [wo EXCEPT !.fields = opt[2]]
      [] opt[1] = "WriteWithPreviousKV" -> [wo EXCEPT !.previous = opt[2]]

RECURSIVE FoldWriteOptions(_, _)
FoldWriteOptions(wo, opts) ==
    IF opts = << >> THEN wo
    ELSE FoldWriteOptions(ApplyWriteOption(wo, Head(opts)), Tail(opts))

NewWriteOptions(opts) ==
    FoldWriteOptions([fields |-> NoFields, value |-> Nil, ttl |-> NoTTL, previous |-> NoKV], opts)

\* the option lists callers pass: a value, then possibly a TTL, then possibly
\* a previous record
PreviousKVs == {[Version |-> v] : v \in 1..MaxWrites}

OptValue == {<<WithString("x")>>}
OptTTL == {<< >>} \cup {<<WithTTL(d)>> : d \in TTLs}
OptPrevious == {<< >>} \cup {<<WithPreviousKV(kv)>> : kv \in PreviousKVs}

PutOptions == {v \o t : v \in OptValue, t \in OptTTL}

\* a value and a field under one of the reserved attribute names
ReservedFieldOptions ==
    {v \o <<WithFields([a \in {f} |-> "y"])>> : v \in OptValue, f \in reservedFields}
AtomicPutOptions == {o \o p : o \in PutOptions, p \in OptPrevious}

\* ---------------------------------------------------------- request builders
buildKeys(partition, key) ==
    [id |-> partition, name |-> key]

\* variant: the version is not incremented
buildUpdate_noAdd(options, now) ==
    LET withValue == IF options.value # Nil
                     THEN [payload |-> options.value] ELSE NoFields
        withFields == Merge(withValue, options.fields)
        withTTL == IF options.ttl # NoTTL
                   THEN SetAttr(withFields, "expires", Unix(now + options.ttl[1]))
                   ELSE withFields
    IN  IF \E k \in DOMAIN options.fields : isReservedField(k)
        THEN [err |-> ErrReservedField, add |-> 0, set |-> NoFields]
        ELSE [err |-> ErrNone, add |-> 0, set |-> withTTL]

\* variant: expires is the duration, not counted from the clock
buildUpdate_durationOnly(options, now) ==
    LET withValue == IF options.value # Nil
                     THEN [payload |-> options.value] ELSE NoFields
        withFields == Merge(withValue, options.fields)
        withTTL == IF options.ttl # NoTTL
                   THEN SetAttr(withFields, "expires", Unix(options.ttl[1]))
                   ELSE withFields
    IN  IF \E k \in DOMAIN options.fields : isReservedField(k)
        THEN [err |-> ErrReservedField, add |-> 1, set |-> NoFields]
        ELSE [err |-> ErrNone, add |-> 1, set |-> withTTL]

\* the update expression: ADD version 1, SET the attributes of .set
\* err is ErrReservedField when a field name is reserved
buildUpdate(options, now) ==
    LET withValue == IF options.value # Nil
                     THEN [payload |-> options.value] ELSE NoFields
        withFields == Merge(withValue, options.fields)
        withTTL == IF options.ttl # NoTTL
                   THEN SetAttr(withFields, "expires", Unix(now + options.ttl[1]))
                   ELSE withFields
    IN  IF \E k \in DOMAIN options.fields : isReservedField(k)
        THEN [err |-> ErrReservedField, add |-> 1, set |-> NoFields]
        ELSE [err |-> ErrNone, add |-> 1, set |-> withTTL]

\* variant: the update condition does not look at expires
updateWithConditions_noExpiry(previous, now) ==
    IF previous # NoKV
    THEN <<"Equal", "version", previous.Version>>
    ELSE <<"Or",
            <<"And", <<"AttributeNotExists", DefaultPartitionKeyAttribute>>,
                     <<"AttributeNotExists", DefaultSortKeyAttribute>> >>,
            <<"And", <<"AttributeNotExists", "expires">>,
                     <<"LessThan", "expires", Unix(now)>> >> >>

\* variant: the update condition does not look at version
updateWithConditions_noVersion(previous, now) ==
    IF previous # NoKV
    THEN <<"Or", <<"AttributeNotExists", "expires">>,
                 <<"GreaterThanEqual", "expires", Unix(now)>> >>
    ELSE <<"Or",
            <<"And", <<"AttributeNotExists", DefaultPartitionKeyAttribute>>,
                     <<"AttributeNotExists", DefaultSortKeyAttribute>> >>,
            <<"And", <<"AttributeNotExists", "expires">>,
                     <<"LessThan", "expires", Unix(now)>> >> >>

\* variant: the create condition joins its expires tests with Or, as the
\* update condition does
updateWithConditions_createOr(previous, now) ==
    IF previous # NoKV
    THEN <<"And",
            <<"Equal", "version", previous.Version>>,
            <<"Or", <<"AttributeNotExists", "expires">>,
                    <<"GreaterThanEqual", "expires", Unix(now)>> >> >>
    ELSE <<"Or",
            <<"And", <<"AttributeNotExists", DefaultPartitionKeyAttribute>>,
                     <<"AttributeNotExists", DefaultSortKeyAttribute>> >>,
            <<"Or", <<"AttributeNotExists", "expires">>,
                    <<"LessThan", "expires", Unix(now)>> >> >>

\* condition expressions are trees <<operator, operands...>>
updateWithConditions(previous, now) ==
    IF previous # NoKV
    THEN <<"And",
            <<"Equal", "version", previous.Version>>,
            <<"Or", <<"AttributeNotExists", "expires">>,
                    <<"GreaterThanEqual", "expires", Unix(now)>> >> >>
    ELSE <<"Or",
            <<"And", <<"AttributeNotExists", DefaultPartitionKeyAttribute>>,
                     <<"AttributeNotExists", DefaultSortKeyAttribute>> >>,
            <<"And", <<"AttributeNotExists", "expires">>,
                     <<"LessThan", "expires", Unix(now)>> >> >>

\* variant: Put carries the create condition of AtomicPut
putCondition_create ==
    updateWithConditions(NoKV, 0)

\* PutWithContext builds its expression from the update alone
putCondition ==
    NoCond

\* ------------------------------------------------------------ the remote store
\* a comparison on an attribute the item does not have is false
RECURSIVE EvalCond(_, _)
EvalCond(cond, item) ==
    CASE cond = NoCond -> TRUE
      [] cond[1] = "And" -> EvalCond(cond[2], item) /\ EvalCond(cond[3], item)
      [] cond[1] = "Or" -> EvalCond(cond[2], item) \/ EvalCond(cond[3], item)
      [] cond[1] = "AttributeNotExists" -> ~Has(item, cond[2])
      [] cond[1] = "Equal" -> Has(item, cond[2]) /\ item[cond[2]] = cond[3]
      [] cond[1] = "GreaterThanEqual" -> Has(item, cond[2]) /\ item[cond[2]] >= cond[3]
      [] cond[1] = "LessThan" -> Has(item, cond[2]) /\ item[cond[2]] < cond[3]

\* variant: SET version in place of ADD
ApplyUpdate_set(item, key, update) ==
    Merge(SetAttr(Merge(item, key), "version", update.add), update.set)

\* UpdateItem creates the item from its key when absent; ADD starts from 0
ApplyUpdate(item, key, update) ==
    LET base == Merge(item, key)
        old == IF Has(base, "version") THEN base["version"] ELSE 0
    IN  Merge(SetAttr(base, "version", old + update.add), update.set)

\* the table's TTL setting on "expires": the store may remove an item once
\* its expires, in whole seconds, is before the current time
TTLPassed(item, now) ==
    Has(item, "expires") /\ item["expires"] < Unix(now)


\* ------------------------------------------------------------ cursor encoding
\* Strings that are listed, compared by prefix or encoded are sequences of
\* one-character strings; a cursor is a sequence of Base58 digits, each
\* written as its index in the alphabet (0 for '1'), and a character that is
\* not in the alphabet as 58.
Ascii ==
    ("a" :> 97) @@ ("b" :> 98) @@ ("c" :> 99) @@ ("d" :> 100) @@ ("e" :> 101)
    @@ ("g" :> 103) @@ ("i" :> 105) @@ ("k" :> 107) @@ ("m" :> 109) @@ ("n" :> 110)
    @@ ("p" :> 112) @@ ("r" :> 114) @@ ("s" :> 115) @@ ("t" :> 116) @@ ("u" :> 117)
    @@ ("z" :> 122) @@ ("1" :> 49) @@ ("S" :> 83)

\* the attribute names and partition names in use, letter by letter
Spell ==
    [id |-> <<"i", "d">>, name |-> <<"n", "a", "m", "e">>,
     created |-> <<"c", "r", "e", "a", "t", "e", "d">>,
     pk1 |-> <<"p", "k", "1">>, sk1 |-> <<"s", "k", "1">>,
     agent |-> <<"a", "g", "e", "n", "t">>, u |-> <<"u">>]

\* the attributes whose values are partition names
PartitionAttributes == {"id", "pk1"}

\* Go's encoding/json writes the keys of a map in sorted order
SortedAttributes == <<"created", "id", "name", "pk1", "sk1">>

Bytes(s) == [i \in 1..Len(s) |-> Ascii[s[i]]]

Quoted(s) == <<34>> \o Bytes(s) \o <<34>>

RECURSIVE Join(_)
Join(parts) ==
    IF parts = << >> THEN << >>
    ELSE IF Len(parts) = 1 THEN parts[1]
    ELSE parts[1] \o <<44>> \o Join(Tail(parts))

\* one member of the object: "name":{"S":"value"}; of an AttributeValue only
\* the S member is written out, the keys in use are all strings
jsonMember(m, a) ==
    Quoted(Spell[a]) \o <<58, 123>> \o Quoted(<<"S">>) \o <<58>>
        \o Quoted(IF a \in PartitionAttributes THEN Spell[m[a]] ELSE m[a])
        \o <<125>>

\* A Go map has no order of its own: the runtime walks its keys in an order
\* that changes from one walk to the next. MapOrders(m) are the orders in
\* which the keys of m may come.
MapOrders(m) ==
    {order \in [1..Cardinality(DOMAIN m) -> DOMAIN m] :
        \A i, j \in DOMAIN order : order[i] = order[j] => i = j}

\* variant: the keys are written in the order in which the map yields them
jsonEncode_mapOrder(m, order) ==
    <<123>> \o Join([i \in 1..Len(order) |-> jsonMember(m, order[i])])
        \o <<125, 10>>

\* json.NewEncoder(wr).Encode(key): the object with its keys sorted, whatever
\* the order of the map, then a newline
jsonEncode(m, order) ==
    LET present == SelectSeq(SortedAttributes, LAMBDA a : a \in DOMAIN m)
    IN  <<123>> \o Join([i \in 1..Len(present) |-> jsonMember(m, present[i])])
            \o <<125, 10>>

\* the gzip member header: the two magic bytes and the deflate method
GzipHeader == <<31, 139, 8>>

\* what flushing a deflate stream appends: an empty stored block
SyncMarker == <<0, 0, 255, 255>>

\* gzip.NewWriter(buf), the writes of the encoder and wr.Flush(): the header,
\* the data in stored blocks and the flush marker; the writer is never
\* closed, so the stream has no trailer
gzipFlush(data) ==
    GzipHeader \o data \o SyncMarker

\* gzip.NewReader and the reads from it: err when the stream ends before
\* the header is read or the header is not a gzip header; otherwise the data
\* up to the flush marker, after which the reader reports an unexpected end
\* of the stream (there is no trailer)
gzipRead(stream) ==
    IF stream = << >> THEN [err |-> "EOF", data |-> << >>]
    ELSE IF Len(stream) < Len(GzipHeader)
    THEN [err |-> "unexpected EOF", data |-> << >>]
    ELSE IF SubSeq(stream, 1, Len(GzipHeader)) # GzipHeader
    THEN [err |-> "gzip: invalid header", data |-> << >>]
    ELSE LET body == SubSeq(stream, Len(GzipHeader) + 1, Len(stream))
             n == Len(body) - Len(SyncMarker)
         IN  IF n >= 0 /\ SubSeq(body, n + 1, Len(body)) = SyncMarker
             THEN [err |-> ErrNone, data |-> SubSeq(body, 1, n)]
             ELSE [err |-> ErrNone, data |-> body]

\* the string between quotes that starts at b[i]
RECURSIVE closingQuote(_, _)
closingQuote(b, j) ==
    IF j > Len(b) THEN 0 ELSE IF b[j] = 34 THEN j ELSE closingQuote(b, j + 1)

Unascii(code) == CHOOSE ch \in DOMAIN Ascii : Ascii[ch] = code

parseString(b, i) ==
    IF i > Len(b) \/ b[i] # 34 THEN [ok |-> FALSE]
    ELSE LET j == closingQuote(b, i + 1)
         IN  IF j = 0 \/ \E x \in (i + 1)..(j - 1) : \A ch \in DOMAIN Ascii : Ascii[ch] # b[x]
             THEN [ok |-> FALSE]
             ELSE [ok |-> TRUE, str |-> [x \in 1..(j - i - 1) |-> Unascii(b[i + x])],
                   next |-> j + 1]

expect(b, i, lit) ==
    /\ i + Len(lit) - 1 <= Len(b)
    /\ SubSeq(b, i, i + Len(lit) - 1) = lit

\* one member at b[i]: [ok, attribute, value, next]
parseMember(b, i) ==
    LET n == parseString(b, i)
    IN  IF ~n.ok \/ ~expect(b, n.next, <<58, 123>> \o Quoted(<<"S">>) \o <<58>>)
        THEN [ok |-> FALSE]
        ELSE LET v == parseString(b, n.next + 6)
             IN  IF ~v.ok \/ ~expect(b, v.next, <<125>>)
                    \/ \A a \in DOMAIN Spell : Spell[a] # n.str
                 THEN [ok |-> FALSE]
                 ELSE [ok |-> TRUE,
                       attribute |-> CHOOSE a \in DOMAIN Spell : Spell[a] = n.str,
                       value |-> v.str, next |-> v.next + 1]

\* the value of attribute a read back from its letters
valueOf(a, str) ==
    IF a \in PartitionAttributes
    THEN IF \E p \in DOMAIN Spell : Spell[p] = str
         THEN CHOOSE p \in DOMAIN Spell : Spell[p] = str ELSE "?"
    ELSE str

RECURSIVE parseMembers(_, _, _)
parseMembers(b, i, m) ==
    LET mem == parseMember(b, i)
    IN  IF ~mem.ok THEN [err |-> "json: syntax error", m |-> NoItem]
        ELSE LET m2 == SetAttr(m, mem.attribute, valueOf(mem.attribute, mem.value))
             IN  IF expect(b, mem.next, <<125>>) THEN [err |-> ErrNone, m |-> m2]
                 ELSE IF expect(b, mem.next, <<44>>) THEN parseMembers(b, mem.next + 1, m2)
                 ELSE [err |-> "json: syntax error", m |-> NoItem]

\* json.NewDecoder(r).Decode(&m): reads one object and stops at its closing
\* brace; what follows it in the stream is not read
jsonDecode(b) ==
    IF ~expect(b, 1, <<123>>) THEN [err |-> "json: syntax error", m |-> NoItem]
    ELSE IF expect(b, 2, <<125>>) THEN [err |-> ErrNone, m |-> NoItem]
    ELSE parseMembers(b, 2, NoItem)

\* --- Base58 (github.com/mr-tron/base58): a byte string read as a number in
\* base 256, written in base 58; every leading zero byte is one digit 0
RECURSIVE leadingZeros(_)
leadingZeros(s) ==
    IF s # << >> /\ s[1] = 0 THEN 1 + leadingZeros(Tail(s)) ELSE 0

stripZeros(s) == SubSeq(s, leadingZeros(s) + 1, Len(s))

\* a quotient and remainder after those of the digits before
joinDigits(left, right) ==
    [q |-> left.q \o right.q, r |-> right.r]

divDigit(x, d) ==
    [q |-> <<x \div d>>, r |-> x % d]

\* the digits lo..hi of s, a number in base from, divided by d with the
\* remainder carry coming in from the digits before: [q, r]; the division
\* goes through the digits from the first to the last, here half by half,
\* the result of the first half worked out once
RECURSIVE divMod(_, _, _, _, _, _)
divMod(s, lo, hi, from, d, carry) ==
    IF lo > hi THEN [q |-> << >>, r |-> carry]
    ELSE IF lo = hi THEN divDigit(carry * from + s[lo], d)
    ELSE CHOOSE qr \in
             {joinDigits(left, divMod(s, mid + 1, hi, from, d, left.r)) :
                 <<mid, left>> \in
                     {<<m, divMod(s, lo, m, from, d, carry)>> : m \in {(lo + hi) \div 2}}} :
             TRUE

\* the remainder is the next digit, written before those found so far
nextDigit(qr, out) ==
    [s |-> qr.q, out |-> <<qr.r>> \o out]

\* one digit more: what is left of the number is divided by the base to
convertStep(st, from, to) ==
    CHOOSE next \in
        {IF rest = << >> THEN [s |-> << >>, out |-> st.out]
         ELSE nextDigit(divMod(rest, 1, Len(rest), from, to, 0), st.out) :
             rest \in {stripZeros(st.s)}} :
        TRUE

\* n steps
RECURSIVE convertSteps(_, _, _, _)
convertSteps(st, from, to, n) ==
    IF n = 0 THEN st
    ELSE IF n = 1 THEN convertStep(st, from, to)
    ELSE CHOOSE last \in
             {convertSteps(half, from, to, n - n \div 2) :
                 half \in {convertSteps(st, from, to, n \div 2)}} :
             TRUE

\* the digits in base to of the number s in base from, before the digits
\* out: a byte gives less than two Base58 digits, a Base58 digit less than
\* one byte
convert(s, from, to, out) ==
    convertSteps([s |-> s, out |-> out], from, to, 2 * Len(s)).out

zeros(n) == [i \in 1..n |-> 0]

base58Encode(bin) ==
    zeros(leadingZeros(bin)) \o convert(bin, 256, 58, << >>)

base58Decode(str) ==
    IF \E i \in 1..Len(str) : str[i] \notin 0..57
    THEN [err |-> "invalid base58 digit", data |-> << >>]
    ELSE [err |-> ErrNone,
          data |-> zeros(leadingZeros(str)) \o convert(str, 58, 256, << >>)]

\* [err, out]: encoding a map of strings and writing to a buffer do not fail
compressAndEncodeKey(key, order) ==
    [err |-> ErrNone, out |-> base58Encode(gzipFlush(jsonEncode(key, order)))]

\* [err, out]
decodedJson(m) ==
    [err |-> m.err, out |-> m.m]

decodedStream(r) ==
    IF r.err # ErrNone THEN [err |-> r.err, out |-> NoItem]
    ELSE decodedJson(jsonDecode(r.data))

decodedBase58(data) ==
    IF data.err # ErrNone THEN [err |-> data.err, out |-> NoItem]
    ELSE decodedStream(gzipRead(data.data))

decompressAndDecodeKey(key) ==
    decodedBase58(base58Decode(key))

\* --- the cursors of the listed run, worked out once
\* the LastEvaluatedKeys of the pages of the table
CursorKeys == {[id |-> PartitionName, name |-> k] : k \in ListKeys}

\* the maps of the cursor run: every choice of the attributes id, name and
\* created, the empty map among them
WithAttribute(maps, a, values) ==
    maps \cup {SetAttr(m, a, v) : m \in maps, v \in values}

AttributeMaps ==
    WithAttribute(
        WithAttribute(
            WithAttribute({NoItem}, "id", {PartitionName, "u"}),
            "name", {<<"a">>, <<"a", "b">>}),
        "created", {<<"a">>})

EncodedKeys ==
    UNION {{[key |-> m, order |-> o, out |-> compressAndEncodeKey(m, o)] :
               o \in MapOrders(m)} : m \in CursorKeys \cup AttributeMaps}

\* compressAndEncodeKey(key, order), looked up
encodedKey(key, order) ==
    (CHOOSE r \in EncodedKeys : r.key = key /\ r.order = order).out

\* the cursor of a page that ended at key "a"
SomeCursor ==
    compressAndEncodeKey([id |-> PartitionName, name |-> <<"a">>], <<"id", "name">>).out

\* start keys that are not cursors: a character outside the Base58 alphabet,
\* Base58 of bytes that are no gzip stream, a gzip stream of cut-off JSON
BadStartKeys ==
    {<<58>> \o Tail(SomeCursor),
     base58Encode(jsonEncode([id |-> PartitionName], <<"id">>)),
     base58Encode(gzipFlush(<<123, 34, 105>>))}

DecodedKeys ==
    {[key |-> s, out |-> decompressAndDecodeKey(s)] :
        s \in {r.out.out : r \in EncodedKeys} \cup BadStartKeys \cup {<< >>}}

\* decompressAndDecodeKey(key), looked up
decodedKey(key) ==
    (CHOOSE r \in DecodedKeys : r.key = key).out

\* ------------------------------------------------------------------ listing
\* read options
ReadWithLimit(n) == <<"ReadWithLimit", n>>
ReadWithStartKey(key) == <<"ReadWithStartKey", key>>
ReadScanIndexForwardDisable == <<"ReadScanIndexForwardDisable">>
ReadConsistentDisable == <<"ReadConsistentDisable">>
ReadWithLocalIndex(name, sortKeyAttribute) ==
    <<"ReadWithLocalIndex", name, sortKeyAttribute>>
ReadWithGlobalIndex(name, partitionKeyAttribute, sortKeyAttribute) ==
    <<"ReadWithGlobalIndex", name, partitionKeyAttribute, sortKeyAttribute>>

NoIndex == [indexType |-> "none"]

\* limit and startKey are pointers: << >> is nil, <<v>> points to v
ApplyReadOption(ro, opt) ==
    CASE opt[1] = "ReadConsistentDisable" -> [ro EXCEPT !.consistent = FALSE]
      [] opt[1] = "ReadWithLimit" -> [ro EXCEPT !.limit = <<opt[2]>>]
      [] opt[1] = "ReadWithStartKey" -> [ro EXCEPT !.startKey = <<opt[2]>>]
      [] opt[1] = "ReadScanIndexForwardDisable" -> [ro EXCEPT !.scanIndexForward = FALSE]
      [] opt[1] = "ReadWithLocalIndex" ->
             [ro EXCEPT !.index = [indexType |-> "local", name |-> opt[2],
                                   sortKeyAttribute |-> opt[3]]]
      [] opt[1] = "ReadWithGlobalIndex" ->
             [ro EXCEPT !.index = [indexType |-> "global", name |-> opt[2],
                                   partitionKeyAttribute |-> opt[3],
                                   sortKeyAttribute |-> opt[4]]]

RECURSIVE FoldReadOptions(_, _)
FoldReadOptions(ro, opts) ==
    IF opts = << >> THEN ro
    ELSE FoldReadOptions(ApplyReadOption(ro, Head(opts)), Tail(opts))

\* variant: only a local index counts
hasIndex_localOnly(readOptions) ==
    readOptions.index # NoIndex /\ readOptions.index.indexType = "local"

\* ReadOptions.hasIndex
hasIndex(readOptions) ==
    readOptions.index # NoIndex

NewReadOptions(opts) ==
    FoldReadOptions([consistent |-> FALSE, scanIndexForward |-> TRUE, limit |-> << >>,
                     startKey |-> << >>, index |-> NoIndex], opts)

\* variant: an index never changes the partition key attribute
resolveKeyAttributes_localOnly(readOptions) ==
    [partitionKey |-> DefaultPartitionKeyAttribute,
     sortKey |-> IF readOptions.index # NoIndex
                 THEN readOptions.index.sortKeyAttribute
                 ELSE DefaultSortKeyAttribute]

resolveKeyAttributes(readOptions) ==
    [partitionKey |-> IF readOptions.index # NoIndex /\ readOptions.index.indexType = "global"
                      THEN readOptions.index.partitionKeyAttribute
                      ELSE DefaultPartitionKeyAttribute,
     sortKey |-> IF readOptions.index # NoIndex
                 THEN readOptions.index.sortKeyAttribute
                 ELSE DefaultSortKeyAttribute]

\* --- the store's Query
IsPrefix(p, s) == Len(p) <= Len(s) /\ SubSeq(s, 1, Len(p)) = p

\* strings are ordered by their bytes
RECURSIVE StrLess(_, _)
StrLess(x, y) ==
    IF y = << >> THEN FALSE
    ELSE IF x = << >> THEN TRUE
    ELSE IF Ascii[x[1]] # Ascii[y[1]] THEN Ascii[x[1]] < Ascii[y[1]]
    ELSE StrLess(Tail(x), Tail(y))

\* the order of the entries of a table or index with sort attribute sk: by
\* sort key value, entries of an index with equal sort key by the table's own
\* sort key
Before(x, y, sk) ==
    \/ StrLess(x[sk], y[sk])
    \/ x[sk] = y[sk] /\ StrLess(x[DefaultSortKeyAttribute], y[DefaultSortKeyAttribute])

\* the attributes of a LastEvaluatedKey / ExclusiveStartKey: the keys of the
\* table and those of the index read
KeyAttributes(cond) ==
    {DefaultPartitionKeyAttribute, DefaultSortKeyAttribute, cond.partitionKey, cond.sortKey}

\* the items, of those given, in query order
RECURSIVE InOrder(_, _, _)
InOrder(items, sk, forward) ==
    IF items = {} THEN << >>
    ELSE LET first == CHOOSE x \in items :
                          \A y \in items \ {x} :
                              IF forward THEN Before(x, y, sk) ELSE Before(y, x, sk)
         IN  <<first>> \o InOrder(items \ {first}, sk, forward)

\* an item satisfies the key condition: it is in the table or index read (it
\* has the key attributes), its partition key equals the value given and its
\* sort key begins with the prefix, where the condition has one
Satisfies(item, cond) ==
    /\ Has(item, cond.partitionKey)
    /\ Has(item, cond.sortKey)
    /\ item[cond.partitionKey] = cond.partition
    /\ cond.prefix # << >> => IsPrefix(cond.prefix, item[cond.sortKey])

\* Query: [err, Items, LastEvaluatedKey]. The items that satisfy the key
\* condition, in sort key order (descending when ScanIndexForward is false),
\* from the one after ExclusiveStartKey, at most Limit of them. The reply has
\* a LastEvaluatedKey when the limit stopped the read: always when items
\* remain, and, when the limit was reached with none remaining, at the
\* store's choice (more).
Query(table, q, more) ==
    LET cond == q.KeyCondition
        start == q.ExclusiveStartKey
        matching == {table[k] : k \in {x \in DOMAIN table :
                                         table[x] # NoItem /\ Satisfies(table[x], cond)}}
        rest == IF start = NoItem THEN matching
                ELSE {i \in matching :
                         IF q.ScanIndexForward THEN Before(start, i, cond.sortKey)
                         ELSE Before(i, start, cond.sortKey)}
        ordered == InOrder(rest, cond.sortKey, q.ScanIndexForward)
        n == IF q.Limit # << >> /\ q.Limit[1] < Len(ordered)
             THEN q.Limit[1] ELSE Len(ordered)
        stopped == /\ q.Limit # << >>
                   /\ n = q.Limit[1]
                   /\ n < Len(ordered) \/ more
    IN  IF start # NoItem /\ (DOMAIN start # KeyAttributes(cond) \/ ~Satisfies(start, cond))
        THEN [err |-> ErrRemote, Items |-> << >>, LastEvaluatedKey |-> NoItem]
        ELSE [err |-> ErrNone,
              Items |-> SubSeq(ordered, 1, n),
              LastEvaluatedKey |->
                  IF stopped
                  THEN [a \in KeyAttributes(cond) |-> ordered[n][a]]
                  ELSE NoItem]

\* ------------------------------------------------------------ the observer
\* The observer notes:
\*   last[k]  the last operation that changed key k (a successful Put or
\*            AtomicPut with the TTL options of its call, a Delete, a
\*            successful AtomicDelete, a removal by the store's TTL process),
\*            the clock at which the store applied it, and the operation
\*            that had changed the key before;
\*   call[c]  the TTL options of the write call that c has in flight, the
\*            clock at which c made the call when a TTL takes effect, and
\*            whether its fields carry a reserved attribute name, until the
\*            store has evaluated the call or c makes its next call;
\*   seen[c]  the version that c's AtomicDelete met at its existence read
\*            (0 for no item), until c's next call;
\*   miss[k]  the previous.Version of the last AtomicDelete that the store
\*            rejected while it held the item of k, 0 once the item is
\*            written or removed otherwise.
NoHist == [off |-> TRUE]

\* the notes of a traversal by pages: none
NoWalk == [on |-> FALSE]

Observing(h) == "last" \in DOMAIN h

\* a write or a removal lands while a traversal is noted: the note goes
Disturbed(h) == IF "walk" \in DOMAIN h THEN [walk |-> NoWalk] ELSE h

NoLast == [op |-> "none"]

NoCall == [ttl |-> << >>, reserved |-> FALSE, at |-> 0]

EmptyHist ==
    [last |-> [k \in Keys |-> NoLast],
     call |-> [c \in Racers |-> NoCall],
     seen |-> [c \in Racers |-> 0],
     miss |-> [k \in Keys |-> 0]]

VersionOf(item) == IF Has(item, "version") THEN item["version"] ELSE 0

IsTTLOption(opt) == opt[1] \in {"WriteWithTTL", "WriteWithNoExpires"}

\* the fields of the call carry a reserved attribute name
CarriesReservedField(opts) ==
    (DOMAIN NewWriteOptions(opts).fields) \cap reservedFields # {}

\* the duration of the TTL option that takes effect, NoTTL if there is none
EffectiveTTL(ttlOptions) ==
    IF ttlOptions # << >> /\ ttlOptions[Len(ttlOptions)][1] = "WriteWithTTL"
    THEN <<ttlOptions[Len(ttlOptions)][2]>>
    ELSE NoTTL

Called(h, c, opts) ==
    IF ~Observing(h) THEN h
    ELSE [h EXCEPT !.call[c] =
              [ttl |-> SelectSeq(opts, IsTTLOption),
               reserved |-> CarriesReservedField(opts),
               at |-> IF EffectiveTTL(SelectSeq(opts, IsTTLOption)) # NoTTL
                      THEN clock ELSE 0],
                   !.seen[c] = 0]

Returned(h, c) ==
    IF ~Observing(h) THEN h ELSE [h EXCEPT !.call[c] = NoCall]

Wrote(h, c, k, op, now) ==
    IF ~Observing(h) THEN Disturbed(h)
    ELSE [h EXCEPT !.last[k] = [op |-> op, opts |-> h.call[c].ttl, at |-> now,
                                after |-> h.last[k].op],
                   !.miss[k] = 0,
                   !.call[c] = NoCall]

Removed(h, k, op, now) ==
    IF ~Observing(h) THEN Disturbed(h)
    ELSE [h EXCEPT !.last[k] = [op |-> op, opts |-> << >>, at |-> now,
                                after |-> h.last[k].op],
                   !.miss[k] = IF op = "AtomicDelete" THEN @ ELSE 0]

\* c makes a call that is not a write: what was noted of its last call goes
Forgot(h, c) ==
    IF ~Observing(h) THEN h ELSE [h EXCEPT !.call[c] = NoCall, !.seen[c] = 0]

ReadForDelete(h, c, item) ==
    IF ~Observing(h) THEN h
    ELSE [h EXCEPT !.call[c] = NoCall, !.seen[c] = VersionOf(item)]

DeleteEvaluatedOn(h, c, k, item, previous) ==
    IF ~Observing(h) THEN h
    ELSE [h EXCEPT !.miss[k] = IF item # NoItem /\ VersionOf(item) # previous.Version
                               THEN previous.Version ELSE @]

\* --- the traversal by pages that the observer follows: the partition,
\* prefix and options of its first call, the sort keys of the records the
\* pages have held so far, whether one of them came twice, and whether the
\* last page had a cursor
BaseOptions(opts) == SelectSeq(opts, LAMBDA o : o[1] # "ReadWithStartKey")

\* a ListPage call: one without a start key begins a traversal, one that
\* passes the cursor of the page before, with the same arguments, goes on
\* with it, any other call ends it
WalkCalled(h, partition, prefix, opts, last) ==
    IF "walk" \notin DOMAIN h THEN h
    ELSE LET startKey == NewReadOptions(opts).startKey
         IN  IF startKey = << >>
             THEN [walk |-> [on |-> TRUE, partition |-> partition, prefix |-> prefix,
                             opts |-> opts, seen |-> {}, twice |-> FALSE,
                             open |-> TRUE]]
             ELSE IF /\ h.walk.on
                     /\ h.walk.open
                     /\ last.op = "ListPage"
                     /\ last.ok
                     /\ startKey[1] = last.LastKey
                     /\ partition = h.walk.partition
                     /\ prefix = h.walk.prefix
                     /\ BaseOptions(opts) = h.walk.opts
             THEN h
             ELSE [walk |-> NoWalk]

WalkLeft(h) == IF "walk" \in DOMAIN h THEN [walk |-> NoWalk] ELSE h

WalkPaged(h, q, out) ==
    IF "walk" \notin DOMAIN h \/ ~h.walk.on THEN h
    ELSE IF q.op # "ListPage" \/ out.err # ErrNone THEN [walk |-> NoWalk]
    ELSE LET names == [i \in 1..Len(out.Items) |->
                          out.Items[i][DefaultSortKeyAttribute]]
         IN  [h EXCEPT !.walk.seen = @ \cup {names[i] : i \in DOMAIN names},
                       !.walk.twice =
                           \/ @
                           \/ \E i \in DOMAIN names : names[i] \in h.walk.seen
                           \/ \E i, j \in DOMAIN names : i # j /\ names[i] = names[j],
                       !.walk.open = (out.LastEvaluatedKey # NoItem)]

\* --------------------------------------------------------------- the program
\* what a call returned; condNow is the clock reading (whole seconds) in the
\* call's condition expression, 0 when the call has none
\* ---------------------------------------------------- contexts and the hook
\* a context: the value under OperationNameKey, "" when none was set, and
\* whether the context is one the hook returned
Background == [OperationName |-> "", hooked |-> FALSE]

setOperationName(ctx, name) == [ctx EXCEPT !.OperationName = name]

OperationName(ctx) == ctx.OperationName

\* StoreHooks.RequestBuilt is the caller's callback; the one of this model
\* returns a context derived from the one it is given
RequestBuilt(ctx, params) == [ctx EXCEPT !.hooked = TRUE]

HookEvent(ctx, params) == [ev |-> "RequestBuilt", ctx |-> ctx, params |-> params]

SendEvent(api, ctx, params) == [ev |-> "send", api |-> api, ctx |-> ctx, params |-> params]

\* the log of a session with the default hooks: none
NoWire == [off |-> TRUE]

\* the log after the latest call of c has left the events given
Logged(w, c, events) == IF w = NoWire THEN w ELSE [w EXCEPT ![c] = events]

\* variant: the SDK is called with the context the hook was given
dispatch_callerContext(ctx, api, params) ==
    <<HookEvent(ctx, params), SendEvent(api, ctx, params)>>

\* ctx = storeHooks.RequestBuilt(ctx, params), then the call of the SDK with
\* ctx and params
dispatch(ctx, api, params) ==
    <<HookEvent(ctx, params), SendEvent(api, RequestBuilt(ctx, params), params)>>

UpdateItemInput(k, update, cond) ==
    [Key |-> buildKeys(PartitionName, k), UpdateExpression |-> update,
     ConditionExpression |-> cond, ReturnValues |-> "ALL_NEW"]

GetItemInput(k, readOptions) ==
    [Key |-> buildKeys(PartitionName, k), ConsistentRead |-> readOptions.consistent]

DeleteItemInput(k, cond) ==
    [Key |-> buildKeys(PartitionName, k), ConditionExpression |-> cond]

\* -------------------------------------------------------------- the operations
Result(op, key, previous, condNow, ok, err, kv) ==
    [op |-> op, key |-> key, previous |-> previous, condNow |-> condNow,
     ok |-> ok, err |-> err, kv |-> kv]

Init ==
    /\ store = [k \in Keys |-> NoItem]
    /\ clock = 0
    /\ pc = [c \in Racers |-> "idle"]
    /\ req = [c \in Racers |-> NoReq]
    /\ res = [c \in Racers |-> NoRes]
    /\ written = [k \in Keys |-> << >>]
    /\ nLive = [k \in Keys |-> 0]
    /\ lastGone = [k \in Keys |-> NoKV]
    /\ hist = NoHist
    /\ wire = NoWire

\* time passes
Tick ==
    /\ clock < MaxClock
    /\ clock' = clock + 1
    /\ UNCHANGED <<store, pc, req, res, written, nLive, lastGone, hist, wire>>

\* the store's background TTL process removes an item whose expires is past
Reclaim(k) ==
    /\ store[k] # NoItem
    /\ TTLPassed(store[k], clock)
    /\ store' = [store EXCEPT ![k] = NoItem]
    /\ nLive' = [nLive EXCEPT ![k] = 0]
    /\ hist' = Removed(hist, k, "Reclaim", clock)
    /\ UNCHANGED <<clock, pc, req, res, written, lastGone, wire>>

\* DynaTable.PutWithContext up to the dispatch of the UpdateItem request
PutCall(c, k, opts) ==
    /\ pc[c] = "idle"
    /\ LET writeOptions == NewWriteOptions(opts)
           ctx == setOperationName(Background, "Put")
           update == buildUpdate(writeOptions, clock)
           updateItem == UpdateItemInput(k, update, putCondition)
       IN  IF update.err # ErrNone
           THEN /\ res' = [res EXCEPT ![c] = Result("Put", k, NoKV, 0, FALSE, update.err, NoKV)]
                /\ wire' = Logged(wire, c, << >>)
                /\ UNCHANGED <<pc, req>>
           ELSE /\ req' = [req EXCEPT ![c] =
                      [op |-> "Put", key |-> k, previous |-> NoKV, now |-> 0,
                       update |-> update, cond |-> putCondition]]
                /\ wire' = Logged(wire, c, dispatch(ctx, "UpdateItem", updateItem))
                /\ pc' = [pc EXCEPT ![c] = "update"]
                /\ res' = [res EXCEPT ![c] = NoRes]
    /\ hist' = Called(hist, c, opts)
    /\ UNCHANGED <<store, clock, written, nLive, lastGone>>

\* DynaTable.AtomicPutWithContext up to the dispatch of the UpdateItem request
AtomicPutCall(c, k, opts) ==
    /\ pc[c] = "idle"
    /\ LET writeOptions == NewWriteOptions(opts)
           update == buildUpdate(writeOptions, clock)
           condition == updateWithConditions(writeOptions.previous, clock)
           updateItem == UpdateItemInput(k, update, condition)
       IN  IF update.err # ErrNone
           THEN /\ res' = [res EXCEPT ![c] =
                      Result("AtomicPut", k, writeOptions.previous, 0, FALSE, update.err, NoKV)]
                /\ wire' = Logged(wire, c, << >>)
                /\ UNCHANGED <<pc, req>>
           ELSE /\ req' = [req EXCEPT ![c] =
                      [op |-> "AtomicPut", key |-> k, previous |-> writeOptions.previous,
                       now |-> Unix(clock), update |-> update, cond |-> condition]]
                /\ wire' = Logged(wire, c,
                      dispatch(setOperationName(Background, "AtomicPut"),
                               "UpdateItem", updateItem))
                /\ pc' = [pc EXCEPT ![c] = "update"]
                /\ res' = [res EXCEPT ![c] = NoRes]
    /\ hist' = Called(hist, c, opts)
    /\ UNCHANGED <<store, clock, written, nLive, lastGone>>

\* variant: one error for both kinds of call
conditionFailed_modified(previous) ==
    ErrKeyModified

\* what AtomicPutWithContext returns on ConditionalCheckFailedException
conditionFailed(previous) ==
    IF previous = NoKV THEN ErrKeyExists ELSE ErrKeyModified

\* variant: ReturnValues ALL_OLD
ReturnValues_allOld(old, new) ==
    old

\* ReturnValues ALL_NEW: the attributes the store hands back with its reply
ReturnValues(old, new) ==
    new

\* the store evaluates an UpdateItem request, condition and mutation in one
\* atomic step, and the caller returns
UpdateItem(c) ==
    /\ pc[c] = "update"
    /\ LET r == req[c]
           item == store[r.key]
           new == ApplyUpdate(item, buildKeys(PartitionName, r.key), r.update)
       IN  IF EvalCond(r.cond, item)
           THEN /\ Len(written[r.key]) < MaxWrites
                /\ store' = [store EXCEPT ![r.key] = new]
                /\ res' = [res EXCEPT ![c] =
                      Result(r.op, r.key, r.previous, r.now, TRUE, ErrNone,
                             IF r.op = "AtomicPut"
                             THEN DecodeItem(ReturnValues(item, new)) ELSE NoKV)]
                /\ written' = [written EXCEPT ![r.key] = Append(@, new["version"])]
                /\ nLive' = [nLive EXCEPT ![r.key] = @ + 1]
                /\ lastGone' = [lastGone EXCEPT ![r.key] = NoKV]
                /\ hist' = Wrote(hist, c, r.key, r.op, clock)
           ELSE /\ res' = [res EXCEPT ![c] =
                      Result(r.op, r.key, r.previous, r.now, FALSE,
                             conditionFailed(r.previous), NoKV)]
                /\ hist' = Returned(hist, c)
                /\ UNCHANGED <<store, written, nLive, lastGone>>
    /\ pc' = [pc EXCEPT ![c] = "idle"]
    /\ req' = [req EXCEPT ![c] = NoReq]
    /\ UNCHANGED <<clock, wire>>

\* variant: the request that failed is sent again
RemoteError_retried(c) ==
    /\ pc[c] \in {"update", "delete"}
    /\ wire' = Logged(wire, c, Append(wire[c], wire[c][Len(wire[c])]))
    /\ UNCHANGED <<store, clock, pc, req, res, written, nLive, lastGone, hist>>

\* the request in flight fails with an error of the remote store other than
\* a conditional check failure; nothing is written
RemoteError(c) ==
    /\ pc[c] \in {"update", "delete"}
    /\ res' = [res EXCEPT ![c] =
          Result(req[c].op, req[c].key, req[c].previous, req[c].now, FALSE, ErrRemote, NoKV)]
    /\ pc' = [pc EXCEPT ![c] = "idle"]
    /\ req' = [req EXCEPT ![c] = NoReq]
    /\ UNCHANGED <<store, clock, written, nLive, lastGone, hist, wire>>

\* DynaTable.GetWithContext; the read of the store is its only remote call
Get(c, k, opts, fails) ==
    /\ pc[c] = "idle"
    /\ LET readOptions == NewReadOptions(opts)
           ctx == setOperationName(Background, "Get")
           indexed == hasIndex(readOptions)
           getItem == GetItemInput(k, readOptions)
           item == store[k]
           out == CASE indexed -> Result("Get", k, NoKV, 0, FALSE, ErrIndexNotSupported, NoKV)
                    [] ~indexed /\ fails -> Result("Get", k, NoKV, 0, FALSE, ErrRemote, NoKV)
                    [] ~indexed /\ ~fails /\ item = NoItem ->
                           Result("Get", k, NoKV, 0, FALSE, ErrKeyNotFound, NoKV)
                    [] ~indexed /\ ~fails /\ item # NoItem /\ isItemExpired(item, clock) ->
                           Result("Get", k, NoKV, 0, FALSE, ErrKeyNotFound, NoKV)
                    [] OTHER -> Result("Get", k, NoKV, 0, TRUE, ErrNone, DecodeItem(item))
       IN  /\ res' = [res EXCEPT ![c] = out]
           /\ wire' = Logged(wire, c,
                 IF indexed THEN << >> ELSE dispatch(ctx, "GetItem", getItem))
    /\ hist' = Forgot(hist, c)
    /\ UNCHANGED <<store, clock, pc, req, written, nLive, lastGone>>

\* DynaTable.ExistsWithContext
Exists(c, k, opts, fails) ==
    /\ pc[c] = "idle"
    /\ LET readOptions == NewReadOptions(opts)
           ctx == setOperationName(Background, "Exists")
           indexed == hasIndex(readOptions)
           getItem == GetItemInput(k, readOptions)
           item == store[k]
           out == CASE indexed -> Result("Exists", k, NoKV, 0, FALSE, ErrIndexNotSupported, NoKV)
                    [] ~indexed /\ fails -> Result("Exists", k, NoKV, 0, FALSE, ErrRemote, NoKV)
                    [] ~indexed /\ ~fails /\ item = NoItem ->
                           Result("Exists", k, NoKV, 0, FALSE, ErrNone, NoKV)
                    [] ~indexed /\ ~fails /\ item # NoItem /\ isItemExpired(item, clock) ->
                           Result("Exists", k, NoKV, 0, FALSE, ErrNone, NoKV)
                    [] OTHER -> Result("Exists", k, NoKV, 0, TRUE, ErrNone, NoKV)
       IN  /\ res' = [res EXCEPT ![c] = out]
           /\ wire' = Logged(wire, c,
                 IF indexed THEN << >> ELSE dispatch(ctx, "GetItem", getItem))
    /\ hist' = Forgot(hist, c)
    /\ UNCHANGED <<store, clock, pc, req, written, nLive, lastGone>>

\* variant: deleting a key that is not stored is an error
Delete_ifPresent(c, k, fails) ==
    /\ pc[c] = "idle"
    /\ IF fails \/ store[k] = NoItem
       THEN /\ res' = [res EXCEPT ![c] =
                  Result("Delete", k, NoKV, 0, FALSE,
                         IF fails THEN ErrRemote ELSE ErrKeyNotFound, NoKV)]
            /\ hist' = Forgot(hist, c)
            /\ UNCHANGED <<store, nLive>>
       ELSE /\ res' = [res EXCEPT ![c] = Result("Delete", k, NoKV, 0, TRUE, ErrNone, NoKV)]
            /\ store' = [store EXCEPT ![k] = NoItem]
            /\ nLive' = [nLive EXCEPT ![k] = 0]
            /\ hist' = Removed(Forgot(hist, c), k, "Delete", clock)
    /\ wire' = Logged(wire, c,
          dispatch(setOperationName(Background, "Delete"), "DeleteItem",
                   DeleteItemInput(k, NoCond)))
    /\ UNCHANGED <<clock, pc, req, written, lastGone>>

\* DynaTable.DeleteWithContext: an unconditional DeleteItem
Delete(c, k, fails) ==
    /\ pc[c] = "idle"
    /\ IF fails
       THEN /\ res' = [res EXCEPT ![c] = Result("Delete", k, NoKV, 0, FALSE, ErrRemote, NoKV)]
            /\ hist' = Forgot(hist, c)
            /\ UNCHANGED <<store, nLive>>
       ELSE /\ res' = [res EXCEPT ![c] = Result("Delete", k, NoKV, 0, TRUE, ErrNone, NoKV)]
            /\ store' = [store EXCEPT ![k] = NoItem]
            /\ nLive' = [nLive EXCEPT ![k] = 0]
            /\ hist' = Removed(Forgot(hist, c), k, "Delete", clock)
    /\ wire' = Logged(wire, c,
          dispatch(setOperationName(Background, "Delete"), "DeleteItem",
                   DeleteItemInput(k, NoCond)))
    /\ UNCHANGED <<clock, pc, req, written, lastGone>>

\* variant: the item has to exist, at any version
deleteCondition_anyVersion(previous) ==
    <<"GreaterThanEqual", "version", 0>>

\* variant: any stored version up to previous.Version passes
deleteCondition_atMost(previous) ==
    <<"LessThan", "version", previous.Version + 1>>

\* variant: no condition
deleteCondition_none(previous) ==
    NoCond

\* the condition of AtomicDelete's DeleteItem request
deleteCondition(previous) ==
    <<"Equal", "version", previous.Version>>

\* DynaTable.AtomicDeleteWithContext up to the dispatch of the conditional
\* DeleteItem: the existence read and the check on previous
AtomicDeleteCall(c, k, previous, fails) ==
    /\ pc[c] = "idle"
    /\ LET ctx == setOperationName(Background, "AtomicDelete")
           getKey == dispatch(ctx, "GetItem", GetItemInput(k, NewReadOptions(<< >>)))
           item == store[k]
       IN  CASE fails ->
                  /\ res' = [res EXCEPT ![c] =
                        Result("AtomicDelete", k, previous, 0, FALSE, ErrRemote, NoKV)]
                  /\ wire' = Logged(wire, c, getKey)
                  /\ UNCHANGED <<pc, req>>
             [] ~fails /\ previous = NoKV /\ item # NoItem /\ ~isItemExpired(item, clock) ->
                  /\ res' = [res EXCEPT ![c] =
                        Result("AtomicDelete", k, previous, 0, FALSE, ErrKeyExists, NoKV)]
                  /\ wire' = Logged(wire, c, getKey)
                  /\ UNCHANGED <<pc, req>>
             [] ~fails /\ previous = NoKV /\ ~(item # NoItem /\ ~isItemExpired(item, clock)) ->
                  \* previous.Version is read through the nil previous
                  /\ res' = [res EXCEPT ![c] =
                        Result("AtomicDelete", k, previous, 0, FALSE, Panic, NoKV)]
                  /\ wire' = Logged(wire, c, getKey)
                  /\ UNCHANGED <<pc, req>>
             [] OTHER ->
                  /\ req' = [req EXCEPT ![c] =
                        [op |-> "AtomicDelete", key |-> k, previous |-> previous,
                         now |-> 0, update |-> NoFields,
                         cond |-> deleteCondition(previous)]]
                  /\ wire' = Logged(wire, c,
                        getKey \o dispatch(ctx, "DeleteItem",
                                           DeleteItemInput(k, deleteCondition(previous))))
                  /\ pc' = [pc EXCEPT ![c] = "delete"]
                  /\ res' = [res EXCEPT ![c] = NoRes]
    /\ hist' = IF fails THEN Forgot(hist, c) ELSE ReadForDelete(hist, c, store[k])
    /\ UNCHANGED <<store, clock, written, nLive, lastGone>>

\* the store evaluates the conditional DeleteItem of AtomicDelete
\* variant: the store removes the item whatever the condition says and
\* answers as the condition says
DeleteItem_removesAnyway(c) ==
    /\ pc[c] = "delete"
    /\ LET r == req[c]
           item == store[r.key]
       IN  /\ store' = [store EXCEPT ![r.key] = NoItem]
           /\ res' = [res EXCEPT ![c] =
                 IF EvalCond(r.cond, item)
                 THEN Result(r.op, r.key, r.previous, 0, TRUE, ErrNone, NoKV)
                 ELSE Result(r.op, r.key, r.previous, 0, FALSE, ErrKeyNotFound, NoKV)]
           /\ nLive' = [nLive EXCEPT ![r.key] = 0]
           /\ lastGone' = [lastGone EXCEPT ![r.key] = r.previous]
           /\ hist' = Removed(DeleteEvaluatedOn(hist, c, r.key, item, r.previous),
                              r.key, "AtomicDelete", clock)
    /\ pc' = [pc EXCEPT ![c] = "idle"]
    /\ req' = [req EXCEPT ![c] = NoReq]
    /\ UNCHANGED <<clock, written, wire>>

DeleteItem(c) ==
    /\ pc[c] = "delete"
    /\ LET r == req[c]
           item == store[r.key]
       IN  IF EvalCond(r.cond, item)
           THEN /\ store' = [store EXCEPT ![r.key] = NoItem]
                /\ res' = [res EXCEPT ![c] =
                      Result(r.op, r.key, r.previous, 0, TRUE, ErrNone, NoKV)]
                /\ nLive' = [nLive EXCEPT ![r.key] = 0]
                /\ lastGone' = [lastGone EXCEPT ![r.key] = r.previous]
                /\ hist' = Removed(DeleteEvaluatedOn(hist, c, r.key, item, r.previous),
                                   r.key, "AtomicDelete", clock)
           ELSE /\ res' = [res EXCEPT ![c] =
                      Result(r.op, r.key, r.previous, 0, FALSE, ErrKeyNotFound, NoKV)]
                /\ hist' = DeleteEvaluatedOn(hist, c, r.key, item, r.previous)
                /\ UNCHANGED <<store, nLive, lastGone>>
    /\ pc' = [pc EXCEPT ![c] = "idle"]
    /\ req' = [req EXCEPT ![c] = NoReq]
    /\ UNCHANGED <<clock, written, wire>>

\* the read options callers pass to Get and Exists
ReadOptionLists ==
    {<< >>, <<ReadConsistentDisable>>,
     <<ReadWithLocalIndex("idx_created", "created")>>,
     <<ReadWithGlobalIndex("idx_global_1", "pk1", "sk1")>>}

Next ==
    \/ Tick
    \/ \E k \in Keys : Reclaim(k)
    \/ \E c \in Clients, k \in Keys, opts \in PutOptions : PutCall(c, k, opts)
    \/ \E c \in Clients, k \in Keys, opts \in AtomicPutOptions : AtomicPutCall(c, k, opts)
    \/ \E c \in Clients : UpdateItem(c)
    \/ \E c \in Clients : RemoteError(c)
    \/ \E c \in Clients, k \in Keys, opts \in ReadOptionLists, fails \in BOOLEAN :
          Get(c, k, opts, fails)
    \/ \E c \in Clients, k \in Keys, opts \in ReadOptionLists, fails \in BOOLEAN :
          Exists(c, k, opts, fails)
    \/ \E c \in Clients, k \in Keys, fails \in BOOLEAN : Delete(c, k, fails)
    \/ \E c \in Clients, k \in Keys, previous \in PreviousKVs \cup {NoKV}, fails \in BOOLEAN :
          AtomicDeleteCall(c, k, previous, fails)
    \/ \E c \in Clients : DeleteItem(c)

Spec == Init /\ [][Next]_vars


\* what List and ListPage return: the records and the cursor
Listed(op, partition, prefix, opts, ok, err, keys, lastKey) ==
    [op |-> op, partition |-> partition, key |-> prefix, opts |-> opts,
     ok |-> ok, err |-> err, kv |-> keys, LastKey |-> lastKey]

\* the QueryInput of ListPageWithContext sets no ScanIndexForward: the store
\* reads forward, its default
queryDirection(readOptions) ==
    TRUE

\* variant: an empty start key is a start key
hasStartKey_notNil(readOptions) ==
    readOptions.startKey # << >>

\* "avoid either a nil or empty value"
hasStartKey(readOptions) ==
    readOptions.startKey # << >> /\ readOptions.startKey[1] # << >>

\* variant: the decoded key is not put into the query
exclusiveStartKey_unset(decoded) ==
    NoItem

exclusiveStartKey(decoded) ==
    decoded

\* variant: ListPage drops the expired items as List does
pageItems_live(items, now) ==
    SelectSeq(items, LAMBDA item : ~isItemExpired(item, now))

\* the items of the page: every item of the reply
pageItems(items, now) ==
    items

\* DynaTable.ListPageWithContext up to the dispatch of the Query request
ListPageCall(c, partition, prefix, opts) ==
    /\ pc[c] = "idle"
    /\ LET readOptions == NewReadOptions(opts)
           knames == resolveKeyAttributes(readOptions)
           decoded == IF hasStartKey(readOptions)
                      THEN decodedKey(readOptions.startKey[1])
                      ELSE [err |-> ErrNone, out |-> NoItem]
           ctx == setOperationName(Background, "ListPage")
           query == [KeyCondition |-> [partitionKey |-> knames.partitionKey,
                                       partition |-> partition,
                                       sortKey |-> knames.sortKey,
                                       prefix |-> prefix],
                     ConsistentRead |-> readOptions.consistent,
                     Limit |-> readOptions.limit,
                     IndexName |-> IF readOptions.index # NoIndex
                                   THEN readOptions.index.name ELSE "",
                     ScanIndexForward |-> queryDirection(readOptions),
                     ExclusiveStartKey |-> exclusiveStartKey(decoded.out)]
       IN  IF decoded.err # ErrNone
           THEN /\ res' = [res EXCEPT ![c] =
                      Listed("ListPage", partition, prefix, opts, FALSE,
                             decoded.err, << >>, << >>)]
                /\ wire' = Logged(wire, c, << >>)
                /\ UNCHANGED <<pc, req>>
           ELSE /\ req' = [req EXCEPT ![c] =
                      Merge([op |-> "ListPage", partition |-> partition, key |-> prefix,
                             opts |-> opts], query)]
                /\ wire' = Logged(wire, c, dispatch(ctx, "Query", query))
                /\ pc' = [pc EXCEPT ![c] = "query"]
                /\ res' = [res EXCEPT ![c] = NoRes]
    /\ hist' = WalkCalled(hist, partition, prefix, opts, res[c])
    /\ UNCHANGED <<store, clock, written, nLive, lastGone>>

\* DynaPartition.ListWithContext up to the dispatch of the Query request: the
\* key condition is on id and name whatever the options say, and only the
\* consistent flag of the options is used
ListCall(c, prefix, opts) ==
    /\ pc[c] = "idle"
    /\ LET readOptions == NewReadOptions(opts)
           ctx == setOperationName(Background, "List")
           query == [KeyCondition |-> [partitionKey |-> "id", partition |-> PartitionName,
                                       sortKey |-> "name", prefix |-> prefix],
                     ConsistentRead |-> readOptions.consistent,
                     Limit |-> << >>,
                     IndexName |-> "",
                     ScanIndexForward |-> TRUE,
                     ExclusiveStartKey |-> NoItem]
       IN  /\ req' = [req EXCEPT ![c] =
                 Merge([op |-> "List", partition |-> PartitionName, key |-> prefix,
                        opts |-> opts, ctx |-> RequestBuilt(ctx, query),
                        got |-> << >>], query)]
           /\ wire' = Logged(wire, c, dispatch(ctx, "Query", query))
    /\ pc' = [pc EXCEPT ![c] = "query"]
    /\ res' = [res EXCEPT ![c] = NoRes]
    /\ hist' = WalkLeft(hist)
    /\ UNCHANGED <<store, clock, written, nLive, lastGone>>

\* variant: List returns what the store holds
listFilter_none(item, now) ==
    FALSE

\* "skip records which are expired"
listFilter(item, now) ==
    isItemExpired(item, now)

\* variant: a page never carries a cursor
pageCursor_never(lastEvaluatedKey, order) ==
    << >>

\* the LastKey of a page: the store's LastEvaluatedKey, encoded, when there
\* is one; order is the order in which the runtime walks the map
pageCursor(lastEvaluatedKey, order) ==
    IF lastEvaluatedKey # NoItem
    THEN encodedKey(lastEvaluatedKey, order).out
    ELSE << >>

\* the QueryInput among the fields of a request in flight
QueryInputOf(q) ==
    [a \in {"KeyCondition", "ConsistentRead", "Limit", "IndexName",
            "ScanIndexForward", "ExclusiveStartKey"} |-> q[a]]

\* QueryPagesWithContext, a page that is not the last: the store ends its
\* reply after n of the items that remain (a reply has a size limit), and the
\* SDK keeps the items and sends the request for the page after them, with
\* the context of the first request
QueryPage(c, n) ==
    /\ pc[c] = "query"
    /\ req[c].op = "List"
    /\ LET q == req[c]
           out == Query(store, q, FALSE)
           lastEvaluatedKey == [a \in KeyAttributes(q.KeyCondition) |-> out.Items[n][a]]
       IN  /\ out.err = ErrNone
           /\ n < Len(out.Items)
           /\ req' = [req EXCEPT ![c].got = @ \o SubSeq(out.Items, 1, n),
                                 ![c].ExclusiveStartKey = lastEvaluatedKey]
           /\ wire' = Logged(wire, c,
                 Append(wire[c],
                        SendEvent("Query", q.ctx,
                                  [QueryInputOf(q) EXCEPT
                                      !.ExclusiveStartKey = lastEvaluatedKey])))
    /\ UNCHANGED <<store, clock, pc, res, written, nLive, lastGone, hist>>

\* the store evaluates the Query of c and c returns: ListPage decodes the
\* items and encodes the cursor, List (which has read every page) fails when
\* the store returned nothing and drops the expired items
QueryItems(c, more) ==
    /\ pc[c] = "query"
    /\ LET q == req[c]
           out == Query(store, q, IF q.op = "List" THEN FALSE ELSE more)
           all == IF q.op = "List" THEN q.got \o out.Items ELSE out.Items
           kept == SelectSeq(all, LAMBDA item : ~listFilter(item, clock))
           items == pageItems(out.Items, clock)
           page == [i \in 1..Len(items) |-> DecodeItem(items[i])]
       IN  /\ \E order \in MapOrders(out.LastEvaluatedKey) :
                res' = [res EXCEPT ![c] =
                   CASE out.err # ErrNone ->
                            Listed(q.op, q.partition, q.key, q.opts, FALSE, out.err,
                                   << >>, << >>)
                     [] out.err = ErrNone /\ q.op = "List" /\ Len(all) = 0 ->
                            Listed(q.op, q.partition, q.key, q.opts, FALSE,
                                   ErrKeyNotFound, << >>, << >>)
                     [] out.err = ErrNone /\ q.op = "List" /\ Len(all) # 0 ->
                            Listed(q.op, q.partition, q.key, q.opts, TRUE, ErrNone,
                                   [i \in 1..Len(kept) |-> DecodeItem(kept[i])], << >>)
                     [] OTHER ->
                            Listed(q.op, q.partition, q.key, q.opts, TRUE, ErrNone, page,
                                   pageCursor(out.LastEvaluatedKey, order))]
           /\ hist' = WalkPaged(hist, q, out)
    /\ pc' = [pc EXCEPT ![c] = "idle"]
    /\ req' = [req EXCEPT ![c] = NoReq]
    /\ UNCHANGED <<store, clock, written, nLive, lastGone, wire>>

\* ------------------------------------------------------------------ the race
\* Several callers issue AtomicPut on one key before the store has evaluated
\* any of them, each asserting what is stored: previous = the stored record
\* when there is one, no previous when there is none.  No one else touches
\* the key.
RaceItems ==
    {NoItem} \cup
    {Merge([id |-> PartitionName, name |-> k, version |-> v, payload |-> "x"], e) :
        k \in Keys, v \in 1..MaxWrites,
        e \in {NoFields} \cup {[expires |-> x] : x \in 0..(Unix(MaxClock) + 1)}}

RaceInit ==
    /\ clock \in 0..MaxClock
    /\ store \in [Keys -> RaceItems]
    /\ \A k \in Keys :
          /\ store[k] # NoItem => store[k]["name"] = k
          \* an expiry is at most one TTL ahead of the clock that wrote it
          /\ Has(store[k], "expires") => store[k]["expires"] <= Unix(clock + TicksPerSec)
    /\ pc = [c \in Racers |-> "idle"]
    /\ req = [c \in Racers |-> NoReq]
    /\ res = [c \in Racers |-> NoRes]
    /\ written = [k \in Keys |-> << >>]
    /\ nLive = [k \in Keys |-> IF store[k] = NoItem THEN 0 ELSE store[k]["version"]]
    /\ lastGone = [k \in Keys |-> NoKV]
    /\ hist = NoHist
    /\ wire = NoWire

StoredKV(k) ==
    IF store[k] = NoItem THEN NoKV ELSE [Version |-> store[k]["version"]]

RaceCall(c, k, opts) ==
    /\ \A d \in Racers : res[d] = NoRes
    /\ \A d \in Racers : pc[d] # "idle" => req[d].key = k
    /\ NewWriteOptions(opts).previous = StoredKV(k)
    /\ AtomicPutCall(c, k, opts)

RaceNext ==
    \/ Tick
    \/ \E c \in Racers, k \in Keys, opts \in AtomicPutOptions : RaceCall(c, k, opts)
    \/ \E c \in Racers : UpdateItem(c)
    \/ \E c \in Racers : RemoteError(c)

SpecRace == RaceInit /\ [][RaceNext]_vars

\* ---------------------------------------------------------- the observed run
\* One caller makes every kind of call, one call after the other, and the
\* observer notes what happens; a second caller writes to the same keys with
\* Put at any moment, also between the two store calls of an AtomicDelete.
\* No call fails remotely.
Observed == "c1"

Writer == "c2"

\* option lists whose last TTL option is WriteWithNoExpires
NoExpiresOptions ==
    {v \o t \o <<WithNoExpires>> : v \in OptValue, t \in {<< >>, <<WithTTL(TicksPerSec)>>}}

ObservedPutOptions == PutOptions \cup NoExpiresOptions \cup ReservedFieldOptions

ObservedAtomicPutOptions ==
    {o \o p : o \in PutOptions \cup NoExpiresOptions, p \in OptPrevious}
        \cup ReservedFieldOptions

HistInit ==
    /\ store = [k \in Keys |-> NoItem]
    /\ clock = 0
    /\ pc = [c \in Racers |-> "idle"]
    /\ req = [c \in Racers |-> NoReq]
    /\ res = [c \in Racers |-> NoRes]
    /\ written = [k \in Keys |-> << >>]
    /\ nLive = [k \in Keys |-> 0]
    /\ lastGone = [k \in Keys |-> NoKV]
    /\ hist = EmptyHist
    /\ wire = NoWire

HistNext ==
    \/ Tick
    \/ \E k \in Keys : Reclaim(k)
    \/ \E k \in Keys, opts \in ObservedPutOptions : PutCall(Observed, k, opts)
    \/ \E k \in Keys, opts \in ObservedAtomicPutOptions : AtomicPutCall(Observed, k, opts)
    \/ \E k \in Keys, opts \in OptValue : PutCall(Writer, k, opts)
    \/ \E c \in {Observed, Writer} : UpdateItem(c)
    \/ \E k \in Keys : Get(Observed, k, << >>, FALSE)
    \/ \E k \in Keys : Exists(Observed, k, << >>, FALSE)
    \/ \E k \in Keys : Delete(Observed, k, FALSE)
    \/ \E k \in Keys, previous \in PreviousKVs \cup {NoKV} :
          AtomicDeleteCall(Observed, k, previous, FALSE)
    \/ DeleteItem(Observed)

SpecHist == HistInit /\ [][HistNext]_vars

\* ------------------------------------------------------------ the listed run
\* A writer puts each of four keys once, the key "ab" with or without a TTL
\* of 0, three of them with the attribute of the local index idx_created
\* (created), two with those of the global index idx_global_1 (pk1, sk1); the store
\* removes what has expired; a reader lists by prefix and reads pages, with a
\* limit, backwards, by index, from the cursor of its last page or from a
\* start key that is no cursor. No call fails remotely, and the store answers
\* a List in one page (the logged run has the List of several pages).
SeedOptions(k) ==
    CASE k = <<"a">> ->
             {<<WithString("x"),
                WithFields([created |-> <<"b">>, pk1 |-> "u", sk1 |-> <<"a">>])>>}
      [] k = <<"a", "b">> ->
             {<<WithString("x"), WithFields([created |-> <<"a">>])>> \o t :
                 t \in {<< >>, <<WithTTL(0)>>}}
      [] k = <<"a", "b", "c">> ->
             {<<WithString("x")>>}
      [] k = <<"z">> ->
             {<<WithString("x"),
                WithFields([created |-> <<"a", "b">>, pk1 |-> "u", sk1 |-> <<"b">>])>>}

PagePrefixes == {<< >>, <<"a">>, <<"a", "b">>}

ListPrefixes == {<<"a">>, <<"a", "b">>, <<"z">>}

LimitOptions == {<< >>} \cup {<<ReadWithLimit(n)>> : n \in 1..MaxLimit}

LocalIndex == ReadWithLocalIndex("idx_created", "created")

GlobalIndex == ReadWithGlobalIndex("idx_global_1", "pk1", "sk1")

\* the ListPage calls the reader makes after its last call returned last
ListPageCalls(last) ==
    {[partition |-> PartitionName, prefix |-> p, opts |-> l \o d] :
        p \in PagePrefixes, l \in LimitOptions,
        d \in {<< >>, <<ReadScanIndexForwardDisable>>}}
    \cup {[partition |-> PartitionName, prefix |-> p, opts |-> <<LocalIndex>>] :
             p \in {<< >>, <<"a">>}}
    \cup {[partition |-> g, prefix |-> p, opts |-> <<GlobalIndex>>] :
             g \in {PartitionName, "u"}, p \in {<< >>, <<"a">>}}
    \cup {[partition |-> PartitionName, prefix |-> << >>,
           opts |-> <<ReadWithStartKey(s)>>] : s \in BadStartKeys \cup {<< >>}}
    \cup (IF last.op = "ListPage" /\ last.ok /\ last.LastKey # << >>
          THEN {[partition |-> last.partition, prefix |-> p,
                 opts |-> BaseOptions(last.opts) \o <<ReadWithStartKey(last.LastKey)>>] :
                   p \in {last.key, <<"z">>}}
          ELSE {})

ListInit ==
    /\ store = [k \in ListKeys |-> NoItem]
    /\ clock = 0
    /\ pc = [c \in Racers |-> "idle"]
    /\ req = [c \in Racers |-> NoReq]
    /\ res = [c \in Racers |-> NoRes]
    /\ written = [k \in ListKeys |-> << >>]
    /\ nLive = [k \in ListKeys |-> 0]
    /\ lastGone = [k \in ListKeys |-> NoKV]
    /\ hist = [walk |-> NoWalk]
    /\ wire = NoWire

ListNext ==
    \/ Tick
    \/ \E k \in ListKeys : Reclaim(k)
    \/ \E k \in ListKeys : \E opts \in SeedOptions(k) :
          written[k] = << >> /\ PutCall(Writer, k, opts)
    \/ UpdateItem(Writer)
    \/ \E call \in ListPageCalls(res[Observed]) :
          ListPageCall(Observed, call.partition, call.prefix, call.opts)
    \/ \E prefix \in ListPrefixes : ListCall(Observed, prefix, << >>)
    \/ \E more \in BOOLEAN : QueryItems(Observed, more)

SpecList == ListInit /\ [][ListNext]_vars

\* --------------------------------------------------------- the traversal run
\* The same table and writer; the reader begins a traversal by pages and then
\* only resumes it, with the cursor of the page it holds, until a page comes
\* without one. The writer and the store's removals act only while no
\* traversal is under way. The reader goes on calling and the store goes on
\* answering.
Traversing == hist.walk.on /\ hist.walk.open

WalkStart(c) ==
    /\ ~Traversing
    /\ \E p \in PagePrefixes : \E l \in LimitOptions :
          ListPageCall(c, PartitionName, p, l)

WalkResume(c) ==
    /\ Traversing
    /\ res[c].op = "ListPage"
    /\ res[c].ok
    /\ res[c].LastKey # << >>
    /\ ListPageCall(c, res[c].partition, res[c].key,
                    BaseOptions(res[c].opts) \o <<ReadWithStartKey(res[c].LastKey)>>)

WalkAnswered(c) == \E more \in BOOLEAN : QueryItems(c, more)

WalkNext ==
    \/ Tick
    \/ ~Traversing /\ \E k \in ListKeys : Reclaim(k)
    \/ ~Traversing /\ \E k \in ListKeys : \E opts \in SeedOptions(k) :
          written[k] = << >> /\ PutCall(Writer, k, opts)
    \/ ~Traversing /\ UpdateItem(Writer)
    \/ WalkStart(Observed)
    \/ WalkResume(Observed)
    \/ WalkAnswered(Observed)

\* the reader's query comes back: the step of WalkAnswered, seen from the
\* reader's position alone
QueryAnswered(c) == pc[c] = "query" /\ pc' = [pc EXCEPT ![c] = "idle"]

SpecWalk ==
    /\ ListInit
    /\ [][WalkNext]_vars
    /\ WF_vars(WalkResume(Observed))
    /\ WF_pc(QueryAnswered(Observed))

\* ------------------------------------------------------------- the cursor run
\* Two callers encode attribute maps, whose keys the Go runtime yields in any
\* order, and decode strings: the cursors that either of them holds and
\* strings that are no cursors. The table is not touched.
EncodeKey(c, key, order) ==
    /\ pc[c] = "idle"
    /\ LET encoded == encodedKey(key, order)
       IN  res' = [res EXCEPT ![c] = [op |-> "compressAndEncodeKey", key |-> key,
                                      err |-> encoded.err, out |-> encoded.out]]
    /\ UNCHANGED <<store, clock, pc, req, written, nLive, lastGone, hist, wire>>

DecodeKey(c, key) ==
    /\ pc[c] = "idle"
    /\ LET decoded == decodedKey(key)
       IN  res' = [res EXCEPT ![c] = [op |-> "decompressAndDecodeKey", key |-> key,
                                      err |-> decoded.err, out |-> decoded.out]]
    /\ UNCHANGED <<store, clock, pc, req, written, nLive, lastGone, hist, wire>>

\* the cursors that the callers hold
HeldCursors ==
    {res[c].out : c \in {d \in Clients : res[d].op = "compressAndEncodeKey"
                                           /\ res[d].err = ErrNone}}

CursorNext ==
    \/ \E c \in Clients : \E key \in AttributeMaps : \E order \in MapOrders(key) :
          EncodeKey(c, key, order)
    \/ \E c \in Clients : \E key \in HeldCursors \cup BadStartKeys :
          DecodeKey(c, key)

SpecCursor == Init /\ [][CursorNext]_vars

\* ------------------------------------------------------------ the logged run
\* A session built with a logging RequestBuilt hook, as the one of Test, on a
\* client that records what it is asked to send.  One caller makes every kind
\* of call through it, one call after the other, on one key; a second key
\* is written once, for the listings to find more than one record.  Remote
\* calls may fail.
WireKeys == {<<"a">>, <<"a", "b">>}

WireInit ==
    /\ store = [k \in WireKeys |-> NoItem]
    /\ clock = 0
    /\ pc = [c \in Racers |-> "idle"]
    /\ req = [c \in Racers |-> NoReq]
    /\ res = [c \in Racers |-> NoRes]
    /\ written = [k \in WireKeys |-> << >>]
    /\ nLive = [k \in WireKeys |-> 0]
    /\ lastGone = [k \in WireKeys |-> NoKV]
    /\ hist = NoHist
    /\ wire = [c \in Racers |-> << >>]

\* the read options the caller passes to ListPage
WirePageOptions ==
    {<< >>, <<ReadConsistentDisable>>, <<ReadWithLimit(1)>>}
        \cup {<<ReadWithStartKey(key)>> : key \in BadStartKeys}

WireNext ==
    \/ Tick
    \/ \E k \in WireKeys : Reclaim(k)
    \/ \E opts \in OptValue :
          written[<<"a", "b">>] = << >> /\ PutCall(Observed, <<"a", "b">>, opts)
    \/ \E k \in Keys, opts \in PutOptions \cup ReservedFieldOptions :
          PutCall(Observed, k, opts)
    \/ \E k \in Keys, opts \in AtomicPutOptions \cup ReservedFieldOptions :
          AtomicPutCall(Observed, k, opts)
    \/ UpdateItem(Observed)
    \/ RemoteError(Observed)
    \/ \E k \in Keys, opts \in ReadOptionLists, fails \in BOOLEAN :
          Get(Observed, k, opts, fails)
    \/ \E k \in Keys, opts \in ReadOptionLists, fails \in BOOLEAN :
          Exists(Observed, k, opts, fails)
    \/ \E k \in Keys, fails \in BOOLEAN : Delete(Observed, k, fails)
    \/ \E k \in Keys, previous \in PreviousKVs \cup {NoKV}, fails \in BOOLEAN :
          AtomicDeleteCall(Observed, k, previous, fails)
    \/ DeleteItem(Observed)
    \/ \E opts \in {<< >>, <<ReadConsistentDisable>>} : ListCall(Observed, <<"a">>, opts)
    \/ \E prefix \in {<< >>, <<"a">>}, opts \in WirePageOptions :
          ListPageCall(Observed, PartitionName, prefix, opts)
    \/ \E n \in 1..Cardinality(WireKeys) : QueryPage(Observed, n)
    \/ \E more \in BOOLEAN : QueryItems(Observed, more)

SpecWire == WireInit /\ [][WireNext]_vars

\* ----------------------------------------------------------- the options run
\* A caller builds write options from any list of up to MaxOptions options.
FieldMaps ==
    {[created |-> <<"a">>], [pk1 |-> "u"], [created |-> <<"b">>, pk1 |-> "v"]}

WriteOptionChoices ==
    {WithString("x"), WithString("y"), WithTTL(TicksPerSec), WithNoExpires,
     WithPreviousKV([Version |-> 1])}
        \cup {WithFields(m) : m \in FieldMaps}

MaxOptions == 3

WriteOptionLists ==
    UNION {[1..n -> WriteOptionChoices] : n \in 0..MaxOptions}

\* the options a caller is about to pass, at any time of the clock
OptionsInit ==
    /\ store = [k \in Keys |-> NoItem]
    /\ clock \in 0..MaxClock
    /\ pc = [c \in Racers |-> "idle"]
    /\ \E opts \in WriteOptionLists :
          req = [c \in Racers |->
                    IF c = Observed THEN [op |-> "NewWriteOptions", opts |-> opts]
                    ELSE NoReq]
    /\ res = [c \in Racers |-> NoRes]
    /\ written = [k \in Keys |-> << >>]
    /\ nLive = [k \in Keys |-> 0]
    /\ lastGone = [k \in Keys |-> NoKV]
    /\ hist = NoHist
    /\ wire = NoWire

\* NewWriteOptions(options...) and buildUpdate of its result, as PutWithContext
\* and AtomicPutWithContext begin
BuildWrite(c) ==
    /\ req[c] # NoReq
    /\ req[c].op = "NewWriteOptions"
    /\ res' = [res EXCEPT ![c] =
          [op |-> "NewWriteOptions", opts |-> req[c].opts,
           out |-> NewWriteOptions(req[c].opts),
           update |-> buildUpdate(NewWriteOptions(req[c].opts), clock)]]
    /\ req' = [req EXCEPT ![c] = NoReq]
    /\ UNCHANGED <<store, clock, pc, written, nLive, lastGone, hist, wire>>

OptionsNext == BuildWrite(Observed)

SpecOptions == OptionsInit /\ [][OptionsNext]_vars

\* ------------------------------------------------------------ steps and cases
\* the store evaluated the UpdateItem request of c and c returned
UpdateEvaluated(c) ==
    /\ pc[c] = "update"
    /\ pc'[c] = "idle"
    /\ res'[c].err # ErrRemote

\* the store evaluated the conditional DeleteItem request of c and c returned
DeleteEvaluated(c) ==
    /\ pc[c] = "delete"
    /\ pc'[c] = "idle"
    /\ res'[c].err # ErrRemote

\* c made a call of op that read the store and returned in this step
ReadReturned(c, op) ==
    /\ pc[c] = "idle"
    /\ pc'[c] = "idle"
    /\ res'[c] # res[c]
    /\ res'[c].op = op
    /\ res'[c].err \notin {ErrIndexNotSupported, ErrRemote}

C2_CreateOnLiveKeyExists ==
    [][\A c \in Clients :
          (UpdateEvaluated(c) /\ req[c].op = "AtomicPut" /\ req[c].previous = NoKV
              /\ store[req[c].key] # NoItem
              /\ ~isItemExpired(store[req[c].key], clock)) =>
             (~res'[c].ok /\ res'[c].kv = NoKV /\ res'[c].err = ErrKeyExists)]_vars

\* a create went through and the next create of the same key was rejected
C2_Witness ==
    \E c, d \in Clients :
        /\ res[c].op = "AtomicPut" /\ res[c].previous = NoKV /\ res[c].ok
        /\ res[d].op = "AtomicPut" /\ res[d].previous = NoKV
        /\ res[d].err = ErrKeyExists
        /\ res[d].key = res[c].key
        /\ nLive[res[c].key] = 1

\* ---------------------------------------------------------------------- C3
\* C3: an AtomicPut with no previous record succeeds when the key does not
\* exist, and also when the stored record has an expires attribute that is
\* strictly before now (the clock reading of the call).
C3_CreateOnAbsentOrExpired ==
    [][\A c \in Clients :
          (UpdateEvaluated(c) /\ req[c].op = "AtomicPut" /\ req[c].previous = NoKV) =>
             LET item == store[req[c].key]
             IN  (item = NoItem \/ (Has(item, "expires") /\ item["expires"] < req[c].now))
                    => (res'[c].ok /\ res'[c].err = ErrNone)]_vars


\* ---------------------------------------------------------------------- C4
Callers == {c \in Racers : res[c] # NoRes}

Winners == {c \in Callers : res[c].ok}

\* every caller of the race has returned, and the store evaluated each call
RaceOver ==
    /\ \A c \in Racers : pc[c] = "idle"
    /\ \A c \in Callers : res[c].err # ErrRemote

\* C4 as claimed: two concurrent AtomicPut calls with the same
\* previous.Version, equal to the stored version: exactly one succeeds and the
\* other returns ErrKeyModified.
C4_ExactlyOneUpdateWins ==
    (RaceOver /\ Cardinality(Callers) = 2 /\ \A c \in Callers : res[c].previous # NoKV) =>
        /\ Cardinality(Winners) = 1
        /\ \A c \in Callers \ Winners : res[c].err = ErrKeyModified

\* C4 as amended: at most one of the calls succeeds and every other returns
\* ErrKeyModified; exactly one succeeds unless the stored record is expired
\* for every call (it has an expires attribute below the call's now), in
\* which case all of them return ErrKeyModified.
C4_OneUpdateWinsUnlessExpired ==
    (RaceOver /\ Cardinality(Callers) >= 2 /\ \A c \in Callers : res[c].previous # NoKV) =>
        /\ Cardinality(Winners) <= 1
        /\ \A c \in Callers \ Winners : res[c].err = ErrKeyModified /\ res[c].kv = NoKV
        /\ Winners = {} =>
              \A c \in Callers :
                  /\ Has(store[res[c].key], "expires")
                  /\ store[res[c].key]["expires"] < res[c].condNow

\* a race on a stored record with one winner
C4_Witness ==
    /\ RaceOver
    /\ Cardinality(Callers) >= 2
    /\ \A c \in Callers : res[c].previous # NoKV
    /\ Cardinality(Winners) = 1

\* ---------------------------------------------------------------------- C5
\* C5: when several callers concurrently issue AtomicPut with no previous on
\* a key that does not exist, exactly one succeeds and every other returns
\* ErrKeyExists.
C5_ExactlyOneCreateWins ==
    (RaceOver /\ Cardinality(Callers) >= 2 /\ \A c \in Callers : res[c].previous = NoKV) =>
        /\ Cardinality(Winners) = 1
        /\ \A c \in Callers \ Winners :
              ~res[c].ok /\ res[c].kv = NoKV /\ res[c].err = ErrKeyExists

\* three callers raced to create the key
C5_Witness ==
    /\ RaceOver
    /\ Callers = Racers
    /\ \A c \in Callers : res[c].previous = NoKV
    /\ Cardinality(Winners) = 1

\* ---------------------------------------------------------------------- C6
StoredVersion(k) == IF Has(store[k], "version") THEN store[k]["version"] ELSE 0

\* C6 as claimed: after n successful writes to a key that started unwritten
\* the stored version equals n.
C6_VersionEqualsWriteCount ==
    \A k \in Keys : store[k] # NoItem => store[k]["version"] = Len(written[k])

\* C6 as amended: every successful write increments the stored version by
\* exactly 1 (from 0 when the key is absent), a failed write changes nothing,
\* and the stored version equals the number of successful writes since the
\* key was last absent.
C6_VersionCountsWritesSinceAbsent ==
    /\ [](\A k \in Keys : StoredVersion(k) = nLive[k])
    /\ [][\A c \in Racers : UpdateEvaluated(c) =>
             IF res'[c].ok
             THEN store'[req[c].key]["version"] = StoredVersion(req[c].key) + 1
             ELSE store' = store]_vars

\* a key written, removed and written again
C6_Witness ==
    \E k \in Keys : store[k] # NoItem /\ nLive[k] = 1 /\ Len(written[k]) = 2

\* ---------------------------------------------------------------------- C7
\* C7 as claimed: the version stored by a successful write is strictly
\* greater than the version stored by every earlier successful write to the
\* key, whatever was done to the key in between.
C7_VersionsStrictlyIncrease ==
    \A k \in Keys : \A i, j \in 1..Len(written[k]) :
        i < j => written[k][i] < written[k][j]

\* C7 as amended: the same, for the successful writes since the key was last
\* absent; a write to an absent key stores version 1.
C7_VersionsIncreaseWhilePresent ==
    \A k \in Keys :
        LET n == Len(written[k])
        IN  /\ \A i, j \in (n - nLive[k] + 1)..n : i < j => written[k][i] < written[k][j]
            /\ nLive[k] > 0 => written[k][n - nLive[k] + 1] = 1

\* two successful writes in a row
C7_Witness ==
    \E k \in Keys : nLive[k] >= 2

\* ---------------------------------------------------------------------- C8
\* the clock's second is the item's expires and the second has begun
AtBoundary(item) ==
    /\ Has(item, "expires")
    /\ item["expires"] = Unix(clock)
    /\ item["expires"] * TicksPerSec < clock

\* C8: at the boundary expires == now a record counts as expired: Get and
\* Exists report it as not found, and an AtomicPut with a previous of the
\* stored version, whose now is the record's expires, is rejected with
\* ErrKeyModified.
C8_BoundaryIsExpired ==
    [][\A c \in Clients :
          /\ (ReadReturned(c, "Get") /\ AtBoundary(store[res'[c].key]))
             => (~res'[c].ok /\ res'[c].err = ErrKeyNotFound)
          /\ (ReadReturned(c, "Exists") /\ AtBoundary(store[res'[c].key]))
             => (~res'[c].ok /\ res'[c].err = ErrNone)
          /\ (UpdateEvaluated(c) /\ req[c].op = "AtomicPut" /\ req[c].previous # NoKV
                /\ Has(store[req[c].key], "expires")
                /\ store[req[c].key]["version"] = req[c].previous.Version
                /\ store[req[c].key]["expires"] = req[c].now)
             => (~res'[c].ok /\ res'[c].err = ErrKeyModified)]_vars

\* ---------------------------------------------------------------------- C9
\* the key is logically absent: no record, or a record whose expires is
\* before the present instant
LogicallyAbsent(k) ==
    \/ store[k] = NoItem
    \/ Has(store[k], "expires") /\ store[k]["expires"] * TicksPerSec < clock

\* C9: Get returns ErrKeyNotFound and Exists returns (false, nil) exactly when
\* the key is logically absent; otherwise Get returns the stored record and
\* Exists returns (true, nil).  Exists never returns ErrKeyNotFound.
C9_ReadsSeeLogicalPresence ==
    [][\A c \in Clients :
          /\ ReadReturned(c, "Get") =>
                LET k == res'[c].key
                IN  IF LogicallyAbsent(k)
                    THEN ~res'[c].ok /\ res'[c].kv = NoKV /\ res'[c].err = ErrKeyNotFound
                    ELSE /\ res'[c].ok /\ res'[c].err = ErrNone
                         /\ res'[c].kv.Partition = PartitionName
                         /\ res'[c].kv.Key = k
                         /\ res'[c].kv.Version = store[k]["version"]
                         /\ res'[c].kv.value = store[k]["payload"]
                         /\ res'[c].kv.Expires =
                               IF Has(store[k], "expires") THEN store[k]["expires"] ELSE 0
          /\ ReadReturned(c, "Exists") =>
                (res'[c].err = ErrNone /\ (res'[c].ok <=> ~LogicallyAbsent(res'[c].key)))
          /\ res'[c] # NoRes /\ res'[c].op = "Exists" => res'[c].err # ErrKeyNotFound]_vars

\* a Get that did not find a record which is still stored, and an Exists
\* that found one
C9_Witness ==
    \E c, d \in Clients :
        /\ res[c].op = "Get" /\ res[c].err = ErrKeyNotFound
        /\ store[res[c].key] # NoItem
        /\ res[d].op = "Exists" /\ res[d].ok

\* --------------------------------------------------------------------- C10
\* C10: an AtomicDelete whose previous has the stored version succeeds and
\* removes the record; the same call repeated with no write in between
\* returns (false, ErrKeyNotFound).
C10_DeleteOnceThenNotFound ==
    [][\A c \in Clients : DeleteEvaluated(c) =>
          LET k == req[c].key
              v == req[c].previous.Version
          IN  /\ (store[k] # NoItem /\ store[k]["version"] = v)
                    => (res'[c].ok /\ res'[c].err = ErrNone /\ store'[k] = NoItem)
              /\ lastGone[k] = req[c].previous
                    => (~res'[c].ok /\ res'[c].err = ErrKeyNotFound /\ store' = store)]_vars

\* the only caller so far removed the record with AtomicDelete, and its
\* repetition of the call found nothing
C10_Witness ==
    \E c \in Clients :
        /\ res[c].op = "AtomicDelete" /\ res[c].err = ErrKeyNotFound
        /\ lastGone[res[c].key] = res[c].previous
        /\ \A d \in Clients \ {c} : pc[d] = "idle" /\ res[d] = NoRes

\* --------------------------------------------------------------------- C11
\* C11: an AtomicDelete whose previous.Version differs from the version of
\* the stored record returns (false, ErrKeyNotFound) and leaves the record as
\* it is; an AtomicDelete with the stored version that the store evaluates
\* after such a rejection, with no write to the key in between, succeeds and
\* removes the record.
C11_WrongVersionKeepsRecord ==
    [][\A c \in Clients :
          DeleteEvaluated(c) =>
              LET r == req[c]
                  item == store[r.key]
              IN  /\ (item # NoItem /\ VersionOf(item) # r.previous.Version) =>
                        /\ ~res'[c].ok
                        /\ res'[c].err = ErrKeyNotFound
                        /\ store' = store
                  /\ (hist.miss[r.key] # 0 /\ item # NoItem
                         /\ VersionOf(item) = r.previous.Version) =>
                        /\ res'[c].ok
                        /\ res'[c].err = ErrNone
                        /\ store'[r.key] = NoItem]_vars

\* an AtomicDelete with the wrong version was rejected, and the next one,
\* with the stored version, removed the record
C11_Witness ==
    \E k \in Keys :
        /\ hist.miss[k] # 0
        /\ hist.last[k].op = "AtomicDelete"
        /\ store[k] = NoItem
        /\ res[Observed] # NoRes
        /\ res[Observed].op = "AtomicDelete"
        /\ res[Observed].ok
        /\ res[Observed].previous.Version # hist.miss[k]

\* --------------------------------------------------------------------- C12
\* C12: an AtomicDelete with previous = nil on a key whose record exists and
\* is not expired returns (false, ErrKeyExists) from its existence check: no
\* DeleteItem request is sent and the record is unchanged.
C12_NilPreviousOnLiveKeyFailsFast ==
    [][\A c \in Clients, k \in Keys :
          (AtomicDeleteCall(c, k, NoKV, FALSE) /\ ~LogicallyAbsent(k)) =>
              /\ res'[c] # NoRes
              /\ ~res'[c].ok
              /\ res'[c].err = ErrKeyExists
              /\ pc'[c] = "idle"
              /\ req'[c] = NoReq
              /\ store' = store]_vars

\* the call was made on a record with a TTL still to run
C12_Witness ==
    \E c \in Clients, k \in Keys :
        /\ res[c] # NoRes
        /\ res[c].op = "AtomicDelete"
        /\ res[c].key = k
        /\ res[c].previous = NoKV
        /\ res[c].err = ErrKeyExists
        /\ pc[c] = "idle"
        /\ Has(store[k], "expires")
        /\ ~LogicallyAbsent(k)

\* --------------------------------------------------------------------- C13
\* C13: an AtomicDelete with previous = nil on a key that does not exist, or
\* whose record is expired, goes on to the conditional delete, from which it
\* returns (true, nil) or (false, ErrKeyNotFound); the call does not abort.
C13_NilPreviousOnAbsentKeyReturns ==
    [][\A c \in Clients, k \in Keys :
          (AtomicDeleteCall(c, k, NoKV, FALSE) /\ LogicallyAbsent(k)) =>
              /\ pc'[c] = "delete"
              /\ res'[c] = NoRes \/ res'[c].err \in {ErrNone, ErrKeyNotFound}]_vars

\* --------------------------------------------------------------------- C14
\* C14: AtomicDelete is an existence read followed by a DeleteItem request
\* conditioned on the version, and writers may act between the two.  Whatever
\* the existence read met, an AtomicDelete with previous = r removes the
\* record if and only if the stored version equals r.Version when the store
\* evaluates the delete; otherwise it returns (false, ErrKeyNotFound) and the
\* record written in the meantime stays as it is.
C14_DeleteDecidedAtEvaluation ==
    [][\A c \in Clients :
          DeleteEvaluated(c) =>
              LET r == req[c]
                  item == store[r.key]
                  matches == item # NoItem /\ VersionOf(item) = r.previous.Version
              IN  /\ res'[c].ok <=> matches
                  /\ res'[c].ok => store'[r.key] = NoItem
                  /\ ~res'[c].ok => /\ res'[c].err = ErrKeyNotFound
                                    /\ store' = store]_vars

\* the existence read met the version of previous, a concurrent Put moved the
\* record on before the delete was evaluated, and the new record is there
C14_Witness ==
    \E k \in Keys :
        /\ pc[Observed] = "idle"
        /\ res[Observed] # NoRes
        /\ res[Observed].op = "AtomicDelete"
        /\ res[Observed].key = k
        /\ res[Observed].err = ErrKeyNotFound
        /\ hist.seen[Observed] = res[Observed].previous.Version
        /\ hist.last[k].op = "Put"
        /\ store[k] # NoItem
        /\ VersionOf(store[k]) = hist.seen[Observed] + 1

\* --------------------------------------------------------------------- C15
\* the request asserts the record that the last change of its key, a
\* successful AtomicPut, returned: nothing has changed the key since
AssertsLastReturned(r) ==
    /\ hist.last[r.key].op = "AtomicPut"
    /\ r.previous # NoKV
    /\ r.previous.Version = VersionOf(store[r.key])

\* a successful AtomicPut returns the record as stored after the write, its
\* Version the stored version before the write plus 1
ReturnsStoredRecord(c) ==
    (UpdateEvaluated(c) /\ req[c].op = "AtomicPut" /\ res'[c].ok) =>
        /\ res'[c].kv.Version = VersionOf(store[req[c].key]) + 1
        /\ res'[c].kv.Version = VersionOf(store'[req[c].key])
        /\ res'[c].kv.value = store'[req[c].key]["payload"]
        /\ res'[c].kv.Expires =
              IF Has(store'[req[c].key], "expires") THEN store'[req[c].key]["expires"] ELSE 0

\* C15 as claimed: a successful AtomicPut returns the record as stored after
\* the write, and an AtomicPut or AtomicDelete that passes the returned record
\* as previous succeeds whenever no other write to the key happened in
\* between.
C15_ReturnedRecordIsNextPrevious ==
    [][\A c \in Clients :
          /\ ReturnsStoredRecord(c)
          /\ (UpdateEvaluated(c) /\ req[c].op = "AtomicPut" /\ AssertsLastReturned(req[c])) =>
                res'[c].ok
          /\ (DeleteEvaluated(c) /\ AssertsLastReturned(req[c])) =>
                res'[c].ok]_vars

\* C15 as amended: the same, where the AtomicPut that passes the returned
\* record succeeds provided the record has no expires attribute or its
\* expires is not before the now of the call, and otherwise returns
\* ErrKeyModified; the AtomicDelete succeeds also on an expired record.
C15_ReturnedRecordIsNextPreviousWhileLive ==
    [][\A c \in Clients :
          /\ ReturnsStoredRecord(c)
          /\ (UpdateEvaluated(c) /\ req[c].op = "AtomicPut" /\ AssertsLastReturned(req[c])) =>
                LET item == store[req[c].key]
                IN  IF ~Has(item, "expires") \/ item["expires"] >= req[c].now
                    THEN res'[c].ok
                    ELSE ~res'[c].ok /\ res'[c].err = ErrKeyModified
          /\ (DeleteEvaluated(c) /\ AssertsLastReturned(req[c])) =>
                res'[c].ok]_vars

\* an AtomicPut created the record, and the AtomicPut that passed what it
\* returned went through
C15_Witness ==
    \E k \in Keys :
        /\ hist.last[k].op = "AtomicPut"
        /\ hist.last[k].after = "AtomicPut"
        /\ nLive[k] = Len(written[k])
        /\ res[Observed] # NoRes
        /\ res[Observed].op = "AtomicPut"
        /\ res[Observed].ok
        /\ res[Observed].previous # NoKV
        /\ res[Observed].kv.Version = res[Observed].previous.Version + 1

\* --------------------------------------------------------------------- C16
\* c called Put or AtomicPut in this step: a request went out, or the call
\* returned at once
WriteCalled(c) ==
    /\ pc[c] = "idle"
    /\ \/ pc'[c] = "update"
       \/ /\ pc'[c] = "idle"
          /\ res'[c] # NoRes
          /\ res'[c].op \in {"Put", "AtomicPut"}
          /\ res'[c] # res[c] \/ hist'.call[c] # hist.call[c]

\* C16: a Put or AtomicPut whose options carry a field named id, name,
\* version, expires or payload returns ErrReservedField without sending a
\* request, and the store is unchanged; so the stored version is never what a
\* caller chose, but the count of the writes since the key was last absent.
C16_ReservedFieldRejectedBeforeRequest ==
    /\ [](\A k \in Keys : VersionOf(store[k]) = nLive[k])
    /\ [][\A c \in Clients :
             (WriteCalled(c) /\ hist'.call[c].reserved) =>
                 /\ res'[c] # NoRes
                 /\ ~res'[c].ok
                 /\ res'[c].err = ErrReservedField
                 /\ pc'[c] = "idle"
                 /\ req'[c] = NoReq
                 /\ store' = store]_vars

\* a write of a record that is stored was rejected for its fields
C16_Witness ==
    \E k \in Keys :
        /\ res[Observed] # NoRes
        /\ res[Observed].op \in {"Put", "AtomicPut"}
        /\ res[Observed].key = k
        /\ res[Observed].err = ErrReservedField
        /\ pc[Observed] = "idle"
        /\ store[k] # NoItem
        /\ hist.last[k].op \in {"Put", "AtomicPut"}

\* --------------------------------------------------------------------- C17
\* C17: Put is an unconditional upsert: whatever the key holds (nothing, a
\* live record at any version, an expired record), a Put that the store
\* evaluates succeeds, leaves a record stored and increments the stored
\* version by exactly 1 (from 0 when there was none); no Put returns
\* ErrKeyExists or ErrKeyModified.
C17_PutAlwaysUpserts ==
    /\ [](\A c \in Clients :
            (res[c] # NoRes /\ res[c].op = "Put") =>
                res[c].err \notin {ErrKeyExists, ErrKeyModified})
    /\ [][\A c \in Clients :
             (UpdateEvaluated(c) /\ req[c].op = "Put") =>
                 /\ res'[c].ok
                 /\ res'[c].err = ErrNone
                 /\ store'[req[c].key] # NoItem
                 /\ VersionOf(store'[req[c].key]) = VersionOf(store[req[c].key]) + 1]_vars

\* the only caller so far wrote the key twice, last with a Put, and the
\* record it wrote over had expired
C17_Witness ==
    \E c \in Clients, k \in Keys :
        /\ \A d \in Clients \ {c} : pc[d] = "idle" /\ res[d] = NoRes
        /\ pc[c] = "idle"
        /\ res[c] # NoRes
        /\ res[c].op = "Put"
        /\ res[c].ok
        /\ written[k] = <<1, 2>>
        /\ VersionOf(store[k]) = 2
        /\ LogicallyAbsent(k)

\* --------------------------------------------------------------------- C18
\* no request on k is in flight
Quiet(k) ==
    \A c \in Clients : pc[c] # "idle" => req[c].key # k

\* the last change of k is a Put with a value and no TTL option that the
\* store applied at this very clock reading; no request on k is in flight and
\* no caller but the observed one has ever made a call
PutJustLanded(k) ==
    /\ hist.last[k].op = "Put"
    /\ hist.last[k].opts = << >>
    /\ hist.last[k].at = clock
    /\ Quiet(k)
    /\ \A d \in Clients \ {Observed} : pc[d] = "idle" /\ res[d] = NoRes

\* C18: after a successful Put(k, value) with no concurrent operation on k,
\* a Get(k) that follows at once succeeds and returns a record with the
\* payload just written and a Version that is not 0, and an Exists(k)
\* returns (true, nil), whatever the key held before the Put.
C18_PutThenGetFinds ==
    [][\A k \in Keys :
          PutJustLanded(k) =>
              /\ (ReadReturned(Observed, "Get") /\ res'[Observed].key = k) =>
                    /\ res'[Observed].ok
                    /\ res'[Observed].err = ErrNone
                    /\ <<WithString(res'[Observed].kv.value)>> \in OptValue
                    /\ res'[Observed].kv.Version # 0
              /\ (ReadReturned(Observed, "Exists") /\ res'[Observed].key = k) =>
                    /\ res'[Observed].ok
                    /\ res'[Observed].err = ErrNone]_vars

\* --------------------------------------------------------------------- C19
\* C19: Delete makes no version check: it succeeds whatever version is
\* stored and also when the key is not stored, and the key is gone; while no
\* write follows, Get returns ErrKeyNotFound and Exists returns (false, nil).
C19_DeleteIsUnconditional ==
    [][\A k \in Keys :
          /\ (pc[Observed] = "idle" /\ Delete(Observed, k, FALSE)) =>
                /\ res'[Observed].ok
                /\ res'[Observed].err = ErrNone
                /\ store'[k] = NoItem
          /\ hist.last[k].op = "Delete" =>
                /\ (ReadReturned(Observed, "Get") /\ res'[Observed].key = k) =>
                      /\ ~res'[Observed].ok
                      /\ res'[Observed].err = ErrKeyNotFound
                /\ (ReadReturned(Observed, "Exists") /\ res'[Observed].key = k) =>
                      /\ ~res'[Observed].ok
                      /\ res'[Observed].err = ErrNone]_vars

\* a Delete of a key that was never written went through, and an Exists
\* after it found nothing
C19_Witness ==
    \E k \in Keys :
        /\ hist.last[k].op = "Delete"
        /\ hist.last[k].after = "none"
        /\ written[k] = << >>
        /\ res[Observed] # NoRes
        /\ res[Observed].op = "Exists"
        /\ res[Observed].key = k
        /\ ~res[Observed].ok
        /\ res[Observed].err = ErrNone

\* --------------------------------------------------------------------- C20
\* the last change of k is a write whose last TTL option is WriteWithNoExpires
WroteWithNoExpires(k) ==
    /\ hist.last[k].op \in {"Put", "AtomicPut"}
    /\ hist.last[k].opts # << >>
    /\ hist.last[k].opts[Len(hist.last[k].opts)] = WithNoExpires

\* C20: a record written with WriteWithNoExpires never expires: after a
\* successful Put or AtomicPut whose effective TTL option is
\* WriteWithNoExpires the stored record has no expiry (Expires reads as 0),
\* whatever expiry the key held before, and until the key is changed again
\* every Get returns the record, at any later time.
C20_NoExpiresNeverExpires ==
    /\ [](\A k \in Keys :
            WroteWithNoExpires(k) =>
                /\ store[k] # NoItem
                /\ DecodeItem(store[k]).Expires = 0)
    /\ [][\A k \in Keys :
             (WroteWithNoExpires(k) /\ ReadReturned(Observed, "Get")
                /\ res'[Observed].key = k) =>
                 /\ res'[Observed].ok
                 /\ res'[Observed].kv.Expires = 0]_vars

\* --------------------------------------------------------------------- C21
\* C21: a write carrying WriteWithTTL(d) stores expires = now + d, in whole
\* seconds, where now is the clock at which the write call runs: the option
\* holds the duration only, so the same option in a later call gives a later
\* expiry.
C21_ExpiryCountsFromTheCall ==
    [][\A c \in Clients :
          (UpdateEvaluated(c) /\ res'[c].ok
             /\ EffectiveTTL(hist.call[c].ttl) # NoTTL) =>
              /\ Has(store'[req[c].key], "expires")
              /\ store'[req[c].key]["expires"] =
                     Unix(hist.call[c].at + EffectiveTTL(hist.call[c].ttl)[1])]_vars

\* the key was written twice with WriteWithTTL of one duration, a second or
\* more apart, and the second write moved the expiry on
C21_Witness ==
    \E k \in Keys :
        /\ hist.last[k].op = "Put"
        /\ hist.last[k].after = "Put"
        /\ hist.last[k].opts = <<WithTTL(TicksPerSec)>>
        /\ written[k] = <<1, 2>>
        /\ clock >= TicksPerSec
        /\ store[k]["expires"] = Unix(clock + TicksPerSec)

\* --------------------------------------------------------------------- C22
\* the store evaluated the Query of c's call of op and c returned
QueryReturned(c, op) ==
    /\ pc[c] = "query"
    /\ pc'[c] = "idle"
    /\ req[c].op = op

\* the sort keys of the records of a result, in the order of the result
KeysOf(kvs) == [i \in DOMAIN kvs |-> kvs[i].Key]

Ascending(names) ==
    \A i, j \in DOMAIN names : i < j => StrLess(names[i], names[j])

\* C22: List(prefix) returns exactly the records of the partition whose key
\* begins with prefix and that are not logically expired, each once, in
\* ascending sort key order; no expired record is in a List result.
C22_ListReturnsLivePrefixed ==
    [][(QueryReturned(Observed, "List") /\ res'[Observed].ok) =>
          LET names == KeysOf(res'[Observed].kv)
          IN  /\ {names[i] : i \in DOMAIN names} =
                     {k \in ListKeys : /\ IsPrefix(req[Observed].key, k)
                                       /\ ~LogicallyAbsent(k)}
              /\ Ascending(names)
              /\ \A i \in DOMAIN names :
                     /\ res'[Observed].kv[i].Partition = PartitionName
                     /\ res'[Observed].kv[i].Expires = 0
                        \/ res'[Observed].kv[i].Expires * TicksPerSec >= clock]_vars

\* every key is stored, "ab" has expired, and List("a") returned the other
\* two keys that begin with "a"
C22_Witness ==
    /\ \A k \in ListKeys : store[k] # NoItem
    /\ LogicallyAbsent(<<"a", "b">>)
    /\ pc[Observed] = "idle"
    /\ res[Observed].op = "List"
    /\ res[Observed].ok
    /\ res[Observed].key = <<"a">>
    /\ KeysOf(res[Observed].kv) = << <<"a">>, <<"a", "b", "c">> >>

\* --------------------------------------------------------------------- C23
\* C23: List fails with ErrKeyNotFound when nothing matches the prefix, also
\* when every record that matches is logically expired: a List that returns
\* without error returns at least one record.
C23_ListNeverReturnsEmpty ==
    [][QueryReturned(Observed, "List") =>
          /\ res'[Observed].ok => res'[Observed].kv # << >>
          /\ (\A k \in ListKeys : IsPrefix(req[Observed].key, k) => LogicallyAbsent(k)) =>
                 /\ ~res'[Observed].ok
                 /\ res'[Observed].err = ErrKeyNotFound]_vars

\* --------------------------------------------------------------------- C24
\* the call in flight reads the table from its start and without a limit
WholeTable(q) ==
    /\ NewReadOptions(q.opts).index = NoIndex
    /\ NewReadOptions(q.opts).limit = << >>
    /\ NewReadOptions(q.opts).startKey = << >>

\* C24: ListPage does not drop expired items: its page holds every stored
\* record that matches the prefix, expired or not; on a prefix that nothing
\* matches it returns an empty page and no error.
C24_ListPageKeepsExpired ==
    [][(QueryReturned(Observed, "ListPage") /\ WholeTable(req[Observed])) =>
          LET names == KeysOf(res'[Observed].kv)
              stored == {k \in ListKeys : /\ store[k] # NoItem
                                          /\ IsPrefix(req[Observed].key, k)}
          IN  /\ res'[Observed].ok
              /\ res'[Observed].err = ErrNone
              /\ {names[i] : i \in DOMAIN names} = stored
              /\ Len(names) = Cardinality(stored)]_vars

\* the page of the last ListPage holds "ab", which is still stored and has
\* expired, next to a record that has not
C24_Witness ==
    /\ pc[Observed] = "idle"
    /\ res[Observed].op = "ListPage"
    /\ res[Observed].ok
    /\ KeysOf(res[Observed].kv) = << <<"a", "b">>, <<"a", "b", "c">> >>
    /\ store[<<"a", "b">>] # NoItem
    /\ LogicallyAbsent(<<"a", "b">>)
    /\ res[Observed].kv[1].Expires = store[<<"a", "b">>]["expires"]
    /\ clock = 1
    /\ written[<<"a", "b", "c">>] # << >>

\* --------------------------------------------------------------------- C25
\* the observer follows a traversal of the table that no write or removal
\* has met since its first call
Traversal ==
    /\ hist.walk.on
    /\ NewReadOptions(hist.walk.opts).index = NoIndex

\* the stored records the traversal is to visit
ToVisit ==
    {k \in ListKeys : /\ store[k] # NoItem
                      /\ store[k]["id"] = hist.walk.partition
                      /\ IsPrefix(hist.walk.prefix, k)}

\* the reader holds the page that its last ListPage call returned
HoldsPage ==
    /\ pc[Observed] = "idle"
    /\ res[Observed].op = "ListPage"
    /\ res[Observed].ok

\* C25: with no concurrent writes, ListPage(prefix, limit L) followed by
\* ListPage calls that pass the LastKey of the page before, unmodified,
\* visits every stored record that matches the prefix exactly once; no page
\* holds more than L records, and a page has a LastKey whenever records
\* remain after it.
C25_PagesVisitEachRecordOnce ==
    Traversal =>
        /\ ~hist.walk.twice
        /\ hist.walk.seen \subseteq ToVisit
        /\ HoldsPage =>
              /\ NewReadOptions(res[Observed].opts).limit # << >> =>
                     Len(res[Observed].kv) <= NewReadOptions(res[Observed].opts).limit[1]
              /\ hist.walk.seen # ToVisit => res[Observed].LastKey # << >>

\* a traversal with limit 1 has visited all four records and its last page
\* has no cursor
C25_Witness ==
    /\ Traversal
    /\ HoldsPage
    /\ NewReadOptions(hist.walk.opts).limit = <<1>>
    /\ hist.walk.seen = ListKeys
    /\ res[Observed].LastKey = << >>

\* --------------------------------------------------------------------- C26
\* C26: a traversal by pages of a table that holds finitely many records and
\* that nobody writes to meanwhile ends: resuming ListPage with the cursor of
\* the last page leads to a page whose LastKey is empty.
C26_TraversalEnds ==
    Traversing ~> (hist.walk.on /\ HoldsPage /\ res[Observed].LastKey = << >>)

\* a traversal of the three records under "a", one record a page, has ended
C26_Witness ==
    /\ hist.walk.on
    /\ ~hist.walk.open
    /\ hist.walk.prefix = <<"a">>
    /\ NewReadOptions(hist.walk.opts).limit = <<1>>
    /\ hist.walk.seen = {<<"a">>, <<"a", "b">>, <<"a", "b", "c">>}
    /\ HoldsPage
    /\ res[Observed].LastKey = << >>

\* --------------------------------------------------------------------- C27
\* a ListPage call on the table itself, from the beginning, with the option
\* ReadScanIndexForwardDisable
Reversed(q) ==
    /\ NewReadOptions(q.opts).index = NoIndex
    /\ NewReadOptions(q.opts).startKey = << >>
    /\ ~NewReadOptions(q.opts).scanIndexForward

Descending(names) ==
    \A i, j \in DOMAIN names : i < j => StrLess(names[j], names[i])

\* C27: ListPage with ReadScanIndexForwardDisable returns the records in
\* descending sort key order; with limit L the page holds the L greatest
\* keys that match, the greatest first.
C27_ReversedPageDescends ==
    [][(QueryReturned(Observed, "ListPage") /\ Reversed(req[Observed])) =>
          LET names == KeysOf(res'[Observed].kv)
              got == {names[i] : i \in DOMAIN names}
              stored == {k \in ListKeys : /\ store[k] # NoItem
                                          /\ IsPrefix(req[Observed].key, k)}
          IN  /\ res'[Observed].ok
              /\ Descending(names)
              /\ got \subseteq stored
              /\ \A k \in stored \ got : \A g \in got : StrLess(k, g)]_vars

\* --------------------------------------------------------------------- C28
\* a ListPage call from the beginning and without a limit: its page holds
\* all that the query matches
Unlimited(q) ==
    /\ NewReadOptions(q.opts).limit = << >>
    /\ NewReadOptions(q.opts).startKey = << >>

\* the stored records whose attribute pk equals the partition argument of
\* the call and whose attribute sk begins with its prefix
MatchedBy(q, pk, sk) ==
    {k \in ListKeys : /\ store[k] # NoItem
                      /\ Has(store[k], pk)
                      /\ Has(store[k], sk)
                      /\ store[k][pk] = q.partition
                      /\ IsPrefix(q.key, store[k][sk])}

\* C28: with no index ListPage matches its partition argument against id
\* and the prefix against name; with ReadWithLocalIndex it matches id and
\* applies the prefix to the sort attribute of the index; with
\* ReadWithGlobalIndex it matches the partition argument against the
\* partition attribute of the index and the prefix against its sort
\* attribute. Every write addresses its record by (id, name), whatever the
\* fields it writes.
C28_IndexSelectsTheAttributes ==
    /\ [][(QueryReturned(Observed, "ListPage") /\ Unlimited(req[Observed])) =>
             LET names == KeysOf(res'[Observed].kv)
                 got == {names[i] : i \in DOMAIN names}
                 index == NewReadOptions(req[Observed].opts).index
             IN  /\ res'[Observed].ok
                 /\ index = NoIndex =>
                        got = MatchedBy(req[Observed], "id", "name")
                 /\ index = NewReadOptions(<<LocalIndex>>).index =>
                        got = MatchedBy(req[Observed], "id", "created")
                 /\ index = NewReadOptions(<<GlobalIndex>>).index =>
                        got = MatchedBy(req[Observed], "pk1", "sk1")]_vars
    /\ [](\A k \in ListKeys :
             store[k] # NoItem =>
                 store[k]["id"] = PartitionName /\ store[k]["name"] = k)
    /\ [][\A k \in ListKeys :
             (UpdateEvaluated(Writer) /\ store'[k] # store[k]) => k = req[Writer].key]_vars

\* the records "a" and "z" carry pk1 = "u"; a page of the global index read
\* with the partition argument "u" and no prefix holds the two of them,
\* though their id is "agent"
C28_Witness ==
    /\ pc[Observed] = "idle"
    /\ res[Observed].op = "ListPage"
    /\ res[Observed].ok
    /\ res[Observed].partition = "u"
    /\ NewReadOptions(res[Observed].opts).index = NewReadOptions(<<GlobalIndex>>).index
    /\ KeysOf(res[Observed].kv) = << <<"a">>, <<"z">> >>
    /\ store[<<"a">>]["id"] = PartitionName
    /\ store[<<"a">>]["pk1"] = "u"

\* --------------------------------------------------------------------- C29
\* caller c decodes the cursor that caller d made
DecodesCursorOf(c, d) ==
    /\ res[d].op = "compressAndEncodeKey"
    /\ res[d].err = ErrNone
    /\ res'[c].op = "decompressAndDecodeKey"
    /\ res'[c] # res[c]
    /\ res'[c].key = res[d].out

\* C29: decompressAndDecodeKey(compressAndEncodeKey(m)) = m for every
\* attribute map m, and the same map always gives the same cursor.
C29_CursorRoundTrip ==
    /\ [][\A c, d \in Clients :
             DecodesCursorOf(c, d) =>
                 res'[c].err = ErrNone /\ res'[c].out = res[d].key]_vars
    /\ [](\A c \in Clients : res[c].op = "compressAndEncodeKey" => res[c].err = ErrNone)
    /\ [](\A c, d \in Clients :
             (/\ res[c].op = "compressAndEncodeKey"
              /\ res[d].op = "compressAndEncodeKey"
              /\ DOMAIN res[c].key = DOMAIN res[d].key
              /\ res[c].key = res[d].key) => res[c].out = res[d].out)

\* one caller holds the cursor of a map of three attributes, the other has
\* decoded that cursor into the map
C29_Witness ==
    /\ res["c2"].op = "compressAndEncodeKey"
    /\ DOMAIN res["c2"].key = {"id", "name", "created"}
    /\ res["c1"].op = "decompressAndDecodeKey"
    /\ res["c1"].key = res["c2"].out
    /\ res["c1"].err = ErrNone
    /\ DOMAIN res["c1"].out = {"id", "name", "created"}
    /\ res["c1"].out = res["c2"].key

\* --------------------------------------------------------------------- C30
\* the start key of a ListPage call, << >> when it has none
StartKeyOf(opts) ==
    IF NewReadOptions(opts).startKey = << >> THEN << >>
    ELSE NewReadOptions(opts).startKey[1]

\* caller c makes a ListPage call with the options opts
ListPageCalled(c, opts) ==
    /\ pc[c] = "idle"
    /\ \/ pc'[c] = "query" /\ req'[c].op = "ListPage" /\ req'[c].opts = opts
       \/ /\ pc'[c] = "idle"
          /\ res'[c] # res[c]
          /\ res'[c].op = "ListPage"
          /\ res'[c].opts = opts

\* C30: ListPage with a non-empty start key that is no cursor (a character
\* outside the Base58 alphabet, no gzip stream, cut-off JSON) fails before a
\* query is sent; with no start key or an empty one it reads from the
\* beginning, without error.
C30_BadStartKeyFailsBeforeTheQuery ==
    [][\A opts \in {<<ReadWithStartKey(s)>> : s \in BadStartKeys \cup {<< >>}}
                 \cup {<< >>} :
          ListPageCalled(Observed, opts) =>
              IF StartKeyOf(opts) \in BadStartKeys
              THEN /\ pc'[Observed] = "idle"
                   /\ req'[Observed] = req[Observed]
                   /\ ~res'[Observed].ok
                   /\ res'[Observed].err \in {"invalid base58 digit",
                                              "gzip: invalid header",
                                              "json: syntax error"}
              ELSE /\ pc'[Observed] = "query"
                   /\ req'[Observed].ExclusiveStartKey = NoItem]_vars

\* with every key stored, the call whose start key holds cut-off JSON has
\* failed at the last step of the decoding
C30_Witness ==
    /\ pc[Observed] = "idle"
    /\ res[Observed].op = "ListPage"
    /\ ~res[Observed].ok
    /\ res[Observed].err = "json: syntax error"
    /\ StartKeyOf(res[Observed].opts) \in BadStartKeys
    /\ \A k \in ListKeys : store[k] # NoItem

\* the read option lists that select an index
IndexedOptionLists == {opts \in ReadOptionLists : NewReadOptions(opts).index # NoIndex}

\* C31: a Get or an Exists called with an index read option, local or
\* global, fails with ErrIndexNotSupported, Get with no record and Exists with
\* false; the hook is not invoked and nothing is sent to the store, whatever
\* the store holds and whether or not it would have answered.
C31_IndexOptionRejectedBeforeRequest ==
    [][\A k \in Keys, opts \in IndexedOptionLists, fails \in BOOLEAN :
          /\ Get(Observed, k, opts, fails) =>
                /\ res'[Observed] =
                      Result("Get", k, NoKV, 0, FALSE, ErrIndexNotSupported, NoKV)
                /\ wire'[Observed] = << >>
                /\ store' = store
          /\ Exists(Observed, k, opts, fails) =>
                /\ res'[Observed] =
                      Result("Exists", k, NoKV, 0, FALSE, ErrIndexNotSupported, NoKV)
                /\ wire'[Observed] = << >>
                /\ store' = store]_vars

\* a Get with an index option has failed on a key that holds a live record
C31_Witness ==
    /\ res[Observed].op = "Get"
    /\ res[Observed].err = ErrIndexNotSupported
    /\ wire[Observed] = << >>
    /\ store[res[Observed].key] # NoItem
    /\ ~isItemExpired(store[res[Observed].key], clock)

\* the options of a list that are of one of the kinds given, in order
OfKind(opts, kinds) == SelectSeq(opts, LAMBDA o : o[1] \in kinds)

\* the field maps of the WriteWithFields options of a list, merged key by key
\* in order, a later map overwriting the same-named keys of the earlier ones
RECURSIVE MergedFields(_)
MergedFields(opts) ==
    IF opts = << >> THEN NoFields
    ELSE LET rest == MergedFields(SubSeq(opts, 1, Len(opts) - 1))
             last == opts[Len(opts)]
         IN  IF last[1] = "WriteWithFields" THEN Merge(rest, last[2]) ELSE rest

\* the setting a list of options leaves behind when the last option of the
\* kinds given decides alone: what that option carries, none when there is no
\* such option
LastOf(opts, kinds, none) ==
    LET of == OfKind(opts, kinds)
    IN  IF of = << >> \/ Len(of[Len(of)]) = 1 THEN none
        ELSE IF of[Len(of)][1] = "WriteWithTTL" THEN <<of[Len(of)][2]>>
        ELSE of[Len(of)][2]

BuiltWrite == res[Observed] # NoRes /\ res[Observed].op = "NewWriteOptions"

\* C32: the write options fold in order; the value, the TTL and the previous
\* record are those of the last option that sets them, and the extra fields
\* are the key-by-key union of the maps of all the WriteWithFields options, a
\* later map overwriting the same-named keys of the earlier ones.
C32_FieldsMerge ==
    BuiltWrite =>
        /\ res[Observed].out.value = LastOf(res[Observed].opts, {"WriteWithString"}, Nil)
        /\ res[Observed].out.ttl =
              LastOf(res[Observed].opts, {"WriteWithTTL", "WriteWithNoExpires"}, NoTTL)
        /\ res[Observed].out.previous =
              LastOf(res[Observed].opts, {"WriteWithPreviousKV"}, NoKV)
        /\ res[Observed].out.fields = MergedFields(res[Observed].opts)

\* C32, amended: the extra fields, too, are those of the last WriteWithFields
\* option alone; a field that only an earlier WriteWithFields carried is
\* neither in the options nor in the update that is built from them.
C32_LastFieldsWin ==
    BuiltWrite =>
        /\ res[Observed].out.value = LastOf(res[Observed].opts, {"WriteWithString"}, Nil)
        /\ res[Observed].out.ttl =
              LastOf(res[Observed].opts, {"WriteWithTTL", "WriteWithNoExpires"}, NoTTL)
        /\ res[Observed].out.previous =
              LastOf(res[Observed].opts, {"WriteWithPreviousKV"}, NoKV)
        /\ res[Observed].out.fields = LastOf(res[Observed].opts, {"WriteWithFields"}, NoFields)
        /\ \A a \in DOMAIN res[Observed].update.set :
              a \in DOMAIN res[Observed].out.fields \cup {"payload", "expires"}

\* write options were built from two WriteWithFields options, the first with
\* a field the second does not have
C32_Witness ==
    /\ BuiltWrite
    /\ LET of == OfKind(res[Observed].opts, {"WriteWithFields"})
       IN  /\ Len(of) = 2
           /\ DOMAIN of[1][2] \ DOMAIN of[2][2] # {}

\* the errors of the package
DomainErrors ==
    {ErrKeyNotFound, ErrKeyExists, ErrKeyModified, ErrReservedField, ErrIndexNotSupported}

\* the requests of one kind that the log of a call holds as sent
SentOf(log, api) == SelectSeq(log, LAMBDA e : e.ev = "send" /\ e.api = api)

\* the call of the caller has returned a failure that is not one of the
\* package's errors, and the store holds what it held
FailedAsRemote ==
    /\ res'[Observed] # NoRes
    /\ ~res'[Observed].ok
    /\ res'[Observed].err \notin DomainErrors \cup {ErrNone}
    /\ pc'[Observed] = "idle"
    /\ store' = store

\* C33: when the store rejects the request of an AtomicPut for its condition
\* the call returns ErrKeyExists (no previous) or ErrKeyModified (a previous)
\* and nothing else, and an AtomicDelete so rejected returns ErrKeyNotFound;
\* a request that fails in any other way makes the call return an error that
\* is none of the package's errors, never a success, with that request sent
\* exactly once.
C33_StoreFailuresTranslatedNotRetried ==
    [][/\ (UpdateItem(Observed) /\ req[Observed].op = "AtomicPut") =>
             IF EvalCond(req[Observed].cond, store[req[Observed].key])
             THEN res'[Observed].ok /\ res'[Observed].err = ErrNone
             ELSE /\ ~res'[Observed].ok
                  /\ res'[Observed].err =
                        IF req[Observed].previous = NoKV THEN ErrKeyExists
                        ELSE ErrKeyModified
                  /\ Len(SentOf(wire'[Observed], "UpdateItem")) = 1
       /\ DeleteItem(Observed) =>
             IF EvalCond(req[Observed].cond, store[req[Observed].key])
             THEN res'[Observed].ok /\ res'[Observed].err = ErrNone
             ELSE /\ ~res'[Observed].ok
                  /\ res'[Observed].err = ErrKeyNotFound
                  /\ Len(SentOf(wire'[Observed], "DeleteItem")) = 1
       /\ (RemoteError(Observed) /\ pc[Observed] = "update") =>
             /\ FailedAsRemote
             /\ Len(SentOf(wire'[Observed], "UpdateItem")) = 1
       /\ (RemoteError(Observed) /\ pc[Observed] = "delete") =>
             /\ FailedAsRemote
             /\ Len(SentOf(wire'[Observed], "GetItem")) = 1
             /\ Len(SentOf(wire'[Observed], "DeleteItem")) = 1
       /\ \A k \in Keys, previous \in PreviousKVs \cup {NoKV} :
             AtomicDeleteCall(Observed, k, previous, TRUE) =>
                /\ FailedAsRemote
                /\ Len(SentOf(wire'[Observed], "GetItem")) = 1
                /\ Len(SentOf(wire'[Observed], "DeleteItem")) = 0]_vars

\* the conditional DeleteItem of an AtomicDelete has failed remotely while the
\* store held the record at the version asserted
C33_Witness ==
    /\ res[Observed].op = "AtomicDelete"
    /\ res[Observed].err = ErrRemote
    /\ Len(SentOf(wire[Observed], "DeleteItem")) = 1
    /\ store[res[Observed].key] # NoItem
    /\ store[res[Observed].key]["version"] = res[Observed].previous.Version

\* the public operation of the caller's latest call, "" before its first
CallName ==
    IF pc[Observed] # "idle" THEN req[Observed].op
    ELSE IF res[Observed] # NoRes THEN res[Observed].op
    ELSE ""

\* the entry of the log at i is an invocation of the hook with the operation
\* name in its context, and the entry after it is the request sent, with the
\* same parameters and the context the hook returned
HookThenSend(log, i) ==
    /\ log[i].ev = "RequestBuilt"
    /\ OperationName(log[i].ctx) = CallName
    /\ CallName \in {"Put", "Get", "Exists", "Delete", "List", "ListPage",
                     "AtomicPut", "AtomicDelete"}
    /\ i < Len(log)
    /\ log[i + 1].ev = "send"
    /\ log[i + 1].params = log[i].params
    /\ log[i + 1].ctx = RequestBuilt(log[i].ctx, log[i].params)

\* the entry of the log at i is the request for a further page of a List: the
\* entry before it is a Query sent with the same context and, but for the
\* start key, the same parameters
FurtherPage(log, i) ==
    /\ CallName = "List"
    /\ i > 1
    /\ log[i - 1].ev = "send"
    /\ log[i - 1].api = "Query"
    /\ log[i].api = "Query"
    /\ log[i].ctx = log[i - 1].ctx
    /\ [log[i].params EXCEPT !.ExclusiveStartKey = NoItem] =
          [log[i - 1].params EXCEPT !.ExclusiveStartKey = NoItem]

\* C34: every request sent to the store comes immediately after one
\* invocation of the hook, made with a context from which OperationName gives
\* the name of the public operation and with the parameters of that request,
\* and is sent with the context the hook returned; every invocation is
\* followed by its request.  An AtomicDelete that sends both its requests has
\* invoked the hook before each.
C34_HookBeforeEveryRequest ==
    LET log == wire[Observed]
    IN  \A i \in 1..Len(log) :
           /\ log[i].ev = "RequestBuilt" => HookThenSend(log, i)
           /\ log[i].ev = "send" => i > 1 /\ HookThenSend(log, i - 1)

\* C34, amended: the hook is invoked once before each call of the SDK, not
\* before each request: the requests that a List sends for the pages after
\* the first follow no invocation; they carry the context the hook returned
\* for the first.
C34_HookBeforeEverySdkCall ==
    LET log == wire[Observed]
    IN  \A i \in 1..Len(log) :
           /\ log[i].ev = "RequestBuilt" => HookThenSend(log, i)
           /\ log[i].ev = "send" =>
                 \/ i > 1 /\ HookThenSend(log, i - 1)
                 \/ FurtherPage(log, i)

\* an AtomicDelete has removed a record: two invocations of the hook, each
\* followed by its request
C34_Witness ==
    /\ res[Observed].op = "AtomicDelete"
    /\ res[Observed].ok
    /\ Len(SelectSeq(wire[Observed], LAMBDA e : e.ev = "RequestBuilt")) = 2
    /\ Len(SentOf(wire[Observed], "GetItem")) = 1
    /\ Len(SentOf(wire[Observed], "DeleteItem")) = 1

\* the read requests (GetItem, Query) that the log of a call holds as sent
ReadsSent(log) ==
    SelectSeq(log, LAMBDA e : e.ev = "send" /\ e.api \in {"GetItem", "Query"})

\* every read request the caller's call has just sent asks for a strongly
\* consistent read exactly when the call's options do not disable it
ReadsSentConsistentUnless(opts) ==
    \A i \in DOMAIN ReadsSent(wire'[Observed]) :
        ReadsSent(wire'[Observed])[i].params.ConsistentRead
            = (\A j \in DOMAIN opts : opts[j] # ReadConsistentDisable)

\* C35: a Get, Exists, List or ListPage called without ReadConsistentDisable,
\* and the existence read inside AtomicDelete, send their read request with
\* ConsistentRead true; with ReadConsistentDisable they send it false.
C35_ReadsConsistentByDefault ==
    [][/\ \A k \in Keys, opts \in ReadOptionLists, fails \in BOOLEAN :
             (Get(Observed, k, opts, fails) \/ Exists(Observed, k, opts, fails))
                => ReadsSentConsistentUnless(opts)
       /\ \A opts \in {<< >>, <<ReadConsistentDisable>>} :
             ListCall(Observed, <<"a">>, opts) => ReadsSentConsistentUnless(opts)
       /\ \A prefix \in {<< >>, <<"a">>}, opts \in WirePageOptions :
             ListPageCall(Observed, PartitionName, prefix, opts)
                => ReadsSentConsistentUnless(opts)
       /\ \A k \in Keys, previous \in PreviousKVs \cup {NoKV}, fails \in BOOLEAN :
             AtomicDeleteCall(Observed, k, previous, fails)
                => ReadsSentConsistentUnless(<< >>)]_vars

\* ------------------------------------------------------ the held record
\* One caller reads the record of a key once, while that record is the first
\* ever written to the key, and later hands what it read as the previous of
\* one AtomicPut or one AtomicDelete; meanwhile another caller writes and
\* deletes the key and the store reclaims what has expired.
HeldInit ==
    /\ store = [k \in Keys |-> NoItem]
    /\ clock = 0
    /\ pc = [c \in Racers |-> "idle"]
    /\ req = [c \in Racers |-> NoReq]
    /\ res = [c \in Racers |-> NoRes]
    /\ written = [k \in Keys |-> << >>]
    /\ nLive = [k \in Keys |-> 0]
    /\ lastGone = [k \in Keys |-> NoKV]
    /\ hist = NoHist
    /\ wire = NoWire

\* the caller holds the record its Get returned
Holds(c) == res[c] # NoRes /\ res[c].op = "Get" /\ res[c].ok

HeldNext ==
    \/ Tick
    \/ \E k \in Keys : Reclaim(k)
    \/ \E k \in Keys, opts \in PutOptions : PutCall(Writer, k, opts)
    \/ \E c \in {Observed, Writer} : UpdateItem(c)
    \/ \E k \in Keys : Delete(Writer, k, FALSE)
    \/ \E k \in Keys :
          /\ ~Holds(Observed)
          /\ res[Observed] # NoRes => res[Observed].op = "Get"
          /\ Len(written[k]) = 1
          /\ Get(Observed, k, << >>, FALSE)
    \/ \E opts \in PutOptions :
          /\ Holds(Observed)
          /\ AtomicPutCall(Observed, res[Observed].key,
                           opts \o <<WithPreviousKV(res[Observed].kv)>>)
    \/ /\ Holds(Observed)
       /\ AtomicDeleteCall(Observed, res[Observed].key, res[Observed].kv, FALSE)
    \/ DeleteItem(Observed)

SpecHeld == HeldInit /\ [][HeldNext]_vars

\* nothing has been written to the key or removed from it since the caller
\* read its record, which was the first written to the key
Untouched(k) == Len(written[k]) = 1 /\ nLive[k] = 1

\* the key has not been removed since it was first written
NeverRemoved(k) == nLive[k] = Len(written[k])

\* the caller's conditional write or delete of the record it holds is
\* evaluated by the store and succeeds
HeldSucceeds ==
    /\ UpdateItem(Observed) \/ DeleteItem(Observed)
    /\ res'[Observed] # NoRes
    /\ res'[Observed].ok

\* C36 as claimed: an AtomicPut or AtomicDelete with previous = r succeeds
\* only if no successful write or removal (Delete, AtomicDelete, reclamation)
\* touched the key since r was read.
C36_SucceedsOnlyIfUntouched ==
    [][HeldSucceeds => Untouched(req[Observed].key)]_vars

\* C36 as amended: it succeeds only against a stored record whose version is
\* r's; while the key has not been removed that means nothing touched the key
\* since r was read.
C36_SucceedsOnlyOnTheVersionHeld ==
    [][HeldSucceeds =>
          /\ store[req[Observed].key] # NoItem
          /\ store[req[Observed].key]["version"] = req[Observed].previous.Version
          /\ NeverRemoved(req[Observed].key) => Untouched(req[Observed].key)]_vars

\* the record read was removed, the key was written again, and the caller's
\* AtomicDelete of the record it held has removed the new one
C36_Witness ==
    /\ res[Observed] # NoRes
    /\ res[Observed].op = "AtomicDelete"
    /\ res[Observed].ok
    /\ Len(written[res[Observed].key]) = 2
    /\ store[res[Observed].key] = NoItem

\* the steps of the caller's call have not touched any record, and the call
\* has returned one of the errors given
FailedWith(errs) ==
    /\ res'[Observed] # NoRes
    /\ ~res'[Observed].ok
    /\ res'[Observed].err \in errs
    /\ pc'[Observed] = "idle"
    /\ store' = store

\* C37: an AtomicPut that fails with ErrKeyExists, ErrKeyModified or
\* ErrReservedField, an AtomicDelete that fails with ErrKeyExists or
\* ErrKeyNotFound, and a Get, Exists or ListPage rejected before its request
\* is sent, leave every record of the store as it was: neither the step that
\* builds and sends the request nor the step that returns the failure changes
\* the store.
C37_FailedCallLeavesStore ==
    [][/\ \A k \in Keys, opts \in AtomicPutOptions \cup ReservedFieldOptions :
             AtomicPutCall(Observed, k, opts) =>
                /\ store' = store
                /\ pc'[Observed] = "idle" => FailedWith({ErrReservedField})
       /\ (UpdateItem(Observed) /\ req[Observed].op = "AtomicPut"
             /\ ~EvalCond(req[Observed].cond, store[req[Observed].key])) =>
                FailedWith({ErrKeyExists, ErrKeyModified})
       /\ \A k \in Keys, previous \in PreviousKVs \cup {NoKV} :
             AtomicDeleteCall(Observed, k, previous, FALSE) =>
                /\ store' = store
                /\ (pc'[Observed] = "idle" /\ res'[Observed].err # Panic)
                      => FailedWith({ErrKeyExists})
       /\ (DeleteItem(Observed)
             /\ ~EvalCond(req[Observed].cond, store[req[Observed].key])) =>
                FailedWith({ErrKeyNotFound})
       /\ \A k \in Keys, opts \in IndexedOptionLists, fails \in BOOLEAN :
             (Get(Observed, k, opts, fails) \/ Exists(Observed, k, opts, fails))
                => FailedWith({ErrIndexNotSupported})
       /\ \A prefix \in {<< >>, <<"a">>}, opts \in WirePageOptions :
             (ListPageCall(Observed, PartitionName, prefix, opts)
                 /\ pc'[Observed] = "idle") =>
                FailedWith({"invalid base58 digit", "gzip: invalid header",
                            "json: syntax error"})]_vars

\* the caller's AtomicDelete has failed with ErrKeyNotFound on a key that
\* holds a record at another version, which is still there
C37_Witness ==
    /\ res[Observed] # NoRes
    /\ res[Observed].op = "AtomicDelete"
    /\ res[Observed].err = ErrKeyNotFound
    /\ pc[Observed] = "idle"
    /\ store[res[Observed].key] # NoItem
    /\ store[res[Observed].key]["version"] # res[Observed].previous.Version

\* C38: what a Get says of a stored record and what the condition of an
\* AtomicPut says of it agree at every instant, the second of expiry
\* included: a caller that holds the untouched record r of a key and calls
\* AtomicPut(k, previous = r) sends a condition that the stored record meets
\* if a Get at that instant returns the record, and fails (ErrKeyModified) if
\* a Get at that instant reports it expired.
C38_ReadAndUpdateAgree ==
    [][\A opts \in PutOptions :
          (/\ Holds(Observed)
           /\ AtomicPutCall(Observed, res[Observed].key,
                            opts \o <<WithPreviousKV(res[Observed].kv)>>)
           /\ Untouched(res[Observed].key)
           /\ store[res[Observed].key] # NoItem)
          => /\ pc'[Observed] = "update"
             /\ EvalCond(req'[Observed].cond, store[res[Observed].key])
                   <=> ~isItemExpired(store[res[Observed].key], clock)
             /\ conditionFailed(req'[Observed].previous) = ErrKeyModified]_vars

\* ------------------------------------------------- the put and the delete
\* Two callers hold the stored record of a key; one calls AtomicPut with it
\* as previous and the other AtomicDelete with it, each before the other has
\* returned, and nobody else writes or removes the key meanwhile.
DuelPut(c, k, opts) ==
    /\ StoredKV(k) # NoKV
    /\ RaceCall(c, k, opts)

DuelDelete(c, k) ==
    /\ \A d \in Racers : res[d] = NoRes
    /\ StoredKV(k) # NoKV
    /\ AtomicDeleteCall(c, k, StoredKV(k), FALSE)

DuelNext ==
    \/ Tick
    \/ \E k \in Keys, opts \in AtomicPutOptions : DuelPut(Observed, k, opts)
    \/ \E k \in Keys : DuelDelete(Writer, k)
    \/ UpdateItem(Observed)
    \/ DeleteItem(Writer)

SpecDuel == RaceInit /\ [][DuelNext]_vars

\* both calls were made and both have returned
DuelOver ==
    /\ \A c \in {Observed, Writer} : pc[c] = "idle" /\ res[c] # NoRes

\* the put won: the delete returned ErrKeyNotFound and the record the put
\* wrote, one version on, is the stored one
PutWon ==
    /\ res[Observed].ok /\ res[Observed].err = ErrNone
    /\ ~res[Writer].ok /\ res[Writer].err = ErrKeyNotFound
    /\ store[res[Observed].key] # NoItem
    /\ store[res[Observed].key]["version"] = res[Observed].previous.Version + 1
    /\ res[Observed].kv = DecodeItem(store[res[Observed].key])

\* the delete won: the put returned ErrKeyModified and the key is absent
DeleteWon ==
    /\ res[Writer].ok /\ res[Writer].err = ErrNone
    /\ ~res[Observed].ok /\ res[Observed].err = ErrKeyModified
    /\ res[Observed].kv = NoKV
    /\ store[res[Writer].key] = NoItem

\* C39: when one caller calls AtomicPut(k, previous = r) and another
\* concurrently AtomicDelete(k, previous = r), r being at the stored version,
\* then however the two requests are ordered exactly one call succeeds: either
\* the put, and the delete returns ErrKeyNotFound and the updated record
\* remains, or the delete, and the put returns ErrKeyModified and the key
\* stays absent.
C39_PutOrDeleteWins ==
    DuelOver => (PutWon \/ DeleteWon) /\ ~(PutWon /\ DeleteWon)

\* the put was evaluated first and won, then the delete found the version
\* moved
C39_Witness ==
    /\ DuelOver
    /\ PutWon
    /\ res[Writer].previous = res[Observed].previous

====
